---- MODULE Spec2Model ----
(***************************************************************************)
(* Think Inside the Box: the Range Detector (ThinkBlockDetector), the      *)
(* Block Styler (ThinkBlockStyler), the Change Monitor (ThinkBlockMonitor) *)
(* and the orchestrating content script, as state machines over a host DOM *)
(* the extension does not control.                                         *)
(*                                                                         *)
(* Text is a sequence of tokens.  The tokens are the characters and        *)
(* character groups the code tells apart: "<", ">", "&", "lt;", "gt;",     *)
(* "amp;", "/", "think", " " and the letters "x", "y".  The text "&lt;" is *)
(* the two tokens "&", "lt;".                                              *)
(***************************************************************************)
EXTENDS Integers, Sequences, FiniteSets, TLC

\* ------------------------------------------------------------------ bounds
MaxDom == 4        \* most elements the host has mounted in its list, the
                   \* elements a container replaced counted with it
MaxIds == 5        \* container handles available to one behaviour

\* --------------------------------------------------------------- text layer
RECURSIVE ReplaceAll(_, _, _)
RECURSIVE IndexFrom(_, _, _)
RECURSIVE TrimStart(_)
RECURSIVE TrimEnd(_)
RECURSIVE EscapeHTML(_)
RECURSIVE DecodeHTML(_)

IsPrefix(p, s) == Len(p) <= Len(s) /\ SubSeq(s, 1, Len(p)) = p

Drop(s, n) == SubSeq(s, n + 1, Len(s))

\* String.prototype.replace(/pat/g, rep)
ReplaceAll(s, pat, rep) ==
  IF s = <<>> THEN <<>>
  ELSE IF IsPrefix(pat, s) THEN rep \o ReplaceAll(Drop(s, Len(pat)), pat, rep)
  ELSE <<Head(s)>> \o ReplaceAll(Tail(s), pat, rep)

\* String.prototype.indexOf: the 0-based index of the first occurrence, or -1
IndexFrom(s, pat, k) ==
  IF Len(pat) > Len(s) THEN -1
  ELSE IF IsPrefix(pat, s) THEN k
  ELSE IndexFrom(Tail(s), pat, k + 1)

IndexOf(s, pat) == IndexFrom(s, pat, 0)

Includes(s, pat) == IndexOf(s, pat) >= 0

\* String.prototype.replace(pat, rep) with a string pattern: first occurrence only
ReplaceFirst(s, pat, rep) ==
  LET i == IndexOf(s, pat)
  IN IF i < 0 THEN s ELSE SubSeq(s, 1, i) \o rep \o Drop(s, i + Len(pat))

\* String.prototype.substring(0, n)
Substring0(s, n) == SubSeq(s, 1, n)

TrimStart(s) == IF s # <<>> /\ Head(s) = " " THEN TrimStart(Tail(s)) ELSE s

TrimEnd(s) ==
  IF s # <<>> /\ s[Len(s)] = " " THEN TrimEnd(SubSeq(s, 1, Len(s) - 1)) ELSE s

Trim(s) == TrimEnd(TrimStart(s))

\* The markup the innerHTML getter serializes a text node to
EscapeHTML(s) ==
  IF s = <<>> THEN <<>>
  ELSE (CASE Head(s) = "&" -> <<"&", "amp;">>
          [] Head(s) = "<" -> <<"&", "lt;">>
          [] Head(s) = ">" -> <<"&", "gt;">>
          [] OTHER -> <<Head(s)>>) \o EscapeHTML(Tail(s))

\* The text the innerHTML setter parses tag-free markup to
DecodeHTML(s) ==
  IF s = <<>> THEN <<>>
  ELSE IF IsPrefix(<<"&", "amp;">>, s) THEN <<"&">> \o DecodeHTML(Drop(s, 2))
  ELSE IF IsPrefix(<<"&", "lt;">>, s) THEN <<"<">> \o DecodeHTML(Drop(s, 2))
  ELSE IF IsPrefix(<<"&", "gt;">>, s) THEN <<">">> \o DecodeHTML(Drop(s, 2))
  ELSE <<Head(s)>> \o DecodeHTML(Tail(s))

\* ThinkBlockDetector.startMarker / endMarker: the entity-escaped literals
startMarker == <<"&", "lt;", "think", "&", "gt;">>
endMarker == <<"&", "lt;", "/", "think", "&", "gt;">>

\* marker.replace(/&lt;/g, '<').replace(/&gt;/g, '>')
RawMarker(m) == ReplaceAll(ReplaceAll(m, <<"&", "lt;">>, <<"<">>), <<"&", "gt;">>, <<">">>)

\* ---------------------------------------------------------------- DOM layer
\* A node of the host container's child list: a candidate leaf element
\* (a div whose inline style holds "font-size: 1rem") with its text content,
\* or a styled container with its handle, the children of its content wrapper,
\* the fingerprint of the range it was built for and its inline style (with the
\* style of its marker chips).
Div(t) ==
  [kind |-> "div", text |-> t, id |-> 0, content |-> <<>>, for |-> <<>>, style |-> <<>>]
Box(id, content, key, style) ==
  [kind |-> "box", text |-> <<>>, id |-> id, content |-> content, for |-> key,
   style |-> style]
Chip(t) == [kind |-> "chip", text |-> t]
Line(t) == [kind |-> "line", text |-> t]

textContent(node) == node.text
innerHTML(node) == EscapeHTML(node.text)

RawStart == <<"<", "think", ">">>
RawEnd == <<"<", "/", "think", ">">>
PaddedStart == <<" ", "<", "think", ">">>
PlainX == <<"x">>

\* what the host renders into a leaf element
HostTexts == {RawStart, RawEnd, PaddedStart, PlainX}

\* the nodes a document.contains / querySelectorAll walk meets, by position
Positions(d) == 1..Len(d)

RECURSIVE CandidatesFrom(_, _)
CandidatesFrom(d, i) ==
  IF i > Len(d) THEN <<>>
  ELSE (IF d[i].kind = "div" THEN <<i>> ELSE <<>>) \o CandidatesFrom(d, i + 1)

\* querySelectorAll('div[style*="font-size: 1rem"]'): the candidates' positions,
\* in document order
querySelectorAll(d) == CandidatesFrom(d, 1)

\* ------------------------------------------------------------ Range Detector
\* A range is the sequence of the positions of its elements; startElement is
\* its first and endElement its last.
startElement(r) == r[1]
endElement(r) == r[Len(r)]

IsStartMarkerText(node) == Trim(textContent(node)) = RawMarker(startMarker)
IsStartMarkerHTML(node) == Trim(innerHTML(node)) = startMarker
IsEndMarkerText(node) == Trim(textContent(node)) = RawMarker(endMarker)
IsEndMarkerHTML(node) == Trim(innerHTML(node)) = endMarker

NoRange == <<>>

RECURSIVE WalkElements(_, _, _, _, _)
\* the for-loop of processElements over allElements[k..], with the open range
\* currentRange and the ranges emitted so far
WalkElements(d, all, k, currentRange, ranges) ==
  IF k > Len(all) THEN ranges
  ELSE LET element == all[k]
           node == d[element]
       IN IF currentRange = NoRange /\ IsStartMarkerText(node)
            THEN WalkElements(d, all, k + 1, <<element>>, ranges)
          ELSE IF currentRange = NoRange /\ IsStartMarkerHTML(node)
            THEN WalkElements(d, all, k + 1, <<element>>, ranges)
          ELSE IF currentRange # NoRange /\ IsEndMarkerText(node)
            THEN WalkElements(d, all, k + 1, NoRange,
                              Append(ranges, Append(currentRange, element)))
          ELSE IF currentRange # NoRange /\ IsEndMarkerHTML(node)
            THEN WalkElements(d, all, k + 1, NoRange,
                              Append(ranges, Append(currentRange, element)))
          ELSE IF currentRange # NoRange
            THEN WalkElements(d, all, k + 1, Append(currentRange, element), ranges)
          ELSE WalkElements(d, all, k + 1, currentRange, ranges)

\* element.outerHTML: every candidate carries the same tag and style attribute,
\* so the serialization differs only in the inner markup
outerHTML(node) == innerHTML(node)

\* `${range.startElement.outerHTML}-${range.endElement?.outerHTML || ''}`
generateRangeKey(d, r) ==
  outerHTML(d[startElement(r)]) \o <<"-">> \o outerHTML(d[endElement(r)])

\* startElement.nextSibling is a styled container
NextSiblingIsContainer(d, i) == i + 1 <= Len(d) /\ d[i + 1].kind = "box"

\* startElement.closest('.think-inside-box-container'): the candidates are
\* children of the host's list, a container's children are elements the styler
\* created without the candidate style, so no candidate lies inside a container
InsideContainer(d, i) == FALSE

\* isProcessed: the answer and the processed set it leaves
isProcessed(d, r, pb) ==
  LET key == generateRangeKey(d, r)
  IN IF key \notin pb THEN [result |-> FALSE, pb |-> pb]
     ELSE IF NextSiblingIsContainer(d, startElement(r)) THEN [result |-> TRUE, pb |-> pb]
     ELSE IF InsideContainer(d, startElement(r)) THEN [result |-> TRUE, pb |-> pb]
     ELSE [result |-> FALSE, pb |-> pb \ {key}]

RECURSIVE FilterUnprocessed(_, _, _, _, _)
\* ranges.filter(range => !this.isProcessed(range)), threading the processed set
FilterUnprocessed(d, ranges, k, kept, pb) ==
  IF k > Len(ranges) THEN [ranges |-> kept, pb |-> pb]
  ELSE LET p == isProcessed(d, ranges[k], pb)
       IN FilterUnprocessed(d, ranges, k + 1,
                            IF p.result THEN kept ELSE Append(kept, ranges[k]), p.pb)

RECURSIVE WalkRestarting(_, _, _, _, _)
\* the loop with the start tests made whether or not a range is open: a start
\* marker met inside an open range drops it and opens a new one
WalkRestarting(d, all, k, currentRange, ranges) ==
  IF k > Len(all) THEN ranges
  ELSE LET element == all[k]
           node == d[element]
       IN IF IsStartMarkerText(node) \/ IsStartMarkerHTML(node)
            THEN WalkRestarting(d, all, k + 1, <<element>>, ranges)
          ELSE IF currentRange # NoRange /\ (IsEndMarkerText(node) \/ IsEndMarkerHTML(node))
            THEN WalkRestarting(d, all, k + 1, NoRange,
                                Append(ranges, Append(currentRange, element)))
          ELSE IF currentRange # NoRange
            THEN WalkRestarting(d, all, k + 1, Append(currentRange, element), ranges)
          ELSE WalkRestarting(d, all, k + 1, currentRange, ranges)

\* processElements in which the last start marker before an end marker wins
processElementsLastStart(d, all, pb) ==
  FilterUnprocessed(d, WalkRestarting(d, all, 1, NoRange, <<>>), 1, <<>>, pb)

\* processElements without its last branch: interior elements are not collected
processElementsNoInterior(d, all, pb) ==
  LET found == WalkElements(d, all, 1, NoRange, <<>>)
      ends == [k \in 1..Len(found) |-> <<startElement(found[k]), endElement(found[k])>>]
  IN FilterUnprocessed(d, ends, 1, <<>>, pb)

\* processElements emitting the range still open when the loop ends
processElementsKeepOpen(d, all, pb) ==
  LET found == WalkElements(d, all, 1, NoRange, <<>>)
      closed == IF found = <<>> THEN 0 ELSE endElement(found[Len(found)])
      rest == SelectSeq(all, LAMBDA e : e > closed)
      opens == {k \in 1..Len(rest) :
                  IsStartMarkerText(d[rest[k]]) \/ IsStartMarkerHTML(d[rest[k]])}
      first == CHOOSE k \in opens : \A j \in opens : k <= j
  IN FilterUnprocessed(d, IF opens = {} THEN found
                          ELSE Append(found, SubSeq(rest, first, Len(rest))),
                       1, <<>>, pb)

processElements(d, all, pb) ==
  FilterUnprocessed(d, WalkElements(d, all, 1, NoRange, <<>>), 1, <<>>, pb)

\* node.textContent of a container: the text of its children, concatenated
RECURSIVE ContentText(_)
ContentText(c) == IF c = <<>> THEN <<>> ELSE Head(c).text \o ContentText(Tail(c))

NodeText(node) == IF node.kind = "box" THEN ContentText(node.content) ELSE node.text

\* the encodings debugLogContent looks for
PossibleStartMarkers ==
  {startMarker, RawStart, <<"&", "amp;", "lt;", "think", "&", "amp;", "gt;">>,
   <<"&", "#60;", "think", "&", "#62;">>}
PossibleEndMarkers ==
  {endMarker, RawEnd, <<"&", "amp;", "lt;", "/", "think", "&", "amp;", "gt;">>,
   <<"&", "#60;", "/", "think", "&", "#62;">>}

\* the elements querySelectorAll('*') returns: the list's children and the
\* children of the containers among them
RECURSIVE AllElements(_)
AllElements(d) ==
  IF d = <<>> THEN <<>>
  ELSE <<Head(d)>> \o (IF Head(d).kind = "box" THEN Head(d).content ELSE <<>>)
         \o AllElements(Tail(d))

RECURSIVE CountTokens(_, _)
CountTokens(text, token) ==
  IF text = <<>> THEN 0
  ELSE (IF Head(text) = token THEN 1 ELSE 0) + CountTokens(Tail(text), token)

\* how many (element, encoding) pairs have the encoding in the element's text
MarkerCount(elements, encodings) ==
  Cardinality({p \in (1..Len(elements)) \X encodings :
                 Includes(NodeText(elements[p[1]]), p[2])})

\* debugLogContent: what it writes to the console; it calls nothing that
\* changes the document or the detector
debugLogContent(d) ==
  [thinkCount |-> CountTokens(ContentText(AllElements(d)), "think"),
   startMarkers |-> MarkerCount(AllElements(d), PossibleStartMarkers),
   endMarkers |-> MarkerCount(AllElements(d), PossibleEndMarkers)]

NoLog == [thinkCount |-> 0, startMarkers |-> 0, endMarkers |-> 0]

\* scanDocument whose debug mode skips the filter of processed ranges
scanDocumentDebugUnfiltered(d, pb, debugMode) ==
  LET all == querySelectorAll(d)
      res == processElements(d, all, pb)
  IN [ranges |-> IF debugMode THEN WalkElements(d, all, 1, NoRange, <<>>) ELSE res.ranges,
      pb |-> res.pb,
      console |-> IF debugMode THEN debugLogContent(d) ELSE NoLog]

\* scanDocument: both branches (list container found or not) query the same
\* selector and run processElements, then debugLogContent in debug mode
scanDocument(d, pb, debugMode) ==
  LET res == processElements(d, querySelectorAll(d), pb)
  IN [ranges |-> res.ranges, pb |-> res.pb,
      console |-> IF debugMode THEN debugLogContent(d) ELSE NoLog]

markAsProcessed(d, r, pb) == pb \cup {generateRangeKey(d, r)}

RECURSIVE MarkAll(_, _, _, _)
MarkAll(d, ranges, k, pb) ==
  IF k > Len(ranges) THEN pb
  ELSE MarkAll(d, ranges, k + 1, markAsProcessed(d, ranges[k], pb))

\* the processed set left as it is
keepProcessedBlocks(pb) == pb

\* clearProcessedBlocks: this.processedBlocks.clear()
clearProcessedBlocks(pb) == {}

\* -------------------------------------------------------------- Block Styler
Undefined == "undefined"

\* the body of the forEach of processRangeElements for the element at 0-based
\* index k - 1 of n: the children it appends to the content wrapper
RangeElementContent(node, k, n) ==
  LET text == textContent(node)
  IN IF k = 1 /\ Includes(text, startMarker)
       THEN LET remainingText == Trim(ReplaceFirst(text, startMarker, <<>>))
            IN <<Chip(startMarker)>> \o
               (IF remainingText # <<>> THEN <<Line(remainingText)>> ELSE <<>>)
     ELSE IF k = n /\ Includes(text, endMarker)
       THEN LET contentText == Trim(Substring0(text, IndexOf(text, endMarker)))
            IN (IF contentText # <<>> THEN <<Line(contentText)>> ELSE <<>>) \o
               <<Chip(endMarker)>>
     ELSE <<Line(DecodeHTML(innerHTML(node)))>>

RECURSIVE ContentFrom(_, _, _)
ContentFrom(d, r, k) ==
  IF k > Len(r) THEN <<>>
  ELSE RangeElementContent(d[r[k]], k, Len(r)) \o ContentFrom(d, r, k + 1)

\* processRangeElements: the children of the content wrapper, in append order
processRangeElements(d, r) == ContentFrom(d, r, 1)

\* While a batch is wrapped the nodes keep the position they had when the scan
\* ran as their identity (tag); a container the batch inserts has tag 0.
Tagged(d) == [i \in 1..Len(d) |-> [tag |-> i, node |-> d[i]]]
Untagged(td) == [i \in 1..Len(td) |-> td[i].node]

InRange(r, t) == \E k \in 1..Len(r) : r[k] = t

\* parentNode.insertBefore(newNode, the element tagged ref)
insertBefore(td, newNode, ref) ==
  LET p == CHOOSE i \in 1..Len(td) : td[i].tag = ref
  IN SubSeq(td, 1, p - 1) \o <<[tag |-> 0, node |-> newNode]>> \o SubSeq(td, p, Len(td))

\* element.remove() skipped for the end element
removeRangeElementsButLast(td, r) ==
  LET Stays(e) == ~InRange(r, e.tag) \/ e.tag = endElement(r) IN SelectSeq(td, Stays)

\* element.remove() for every element of the range
removeRangeElements(td, r) ==
  LET Stays(e) == ~InRange(r, e.tag) IN SelectSeq(td, Stays)

\* a colour is the sequence of the characters of its '#rrggbb' string
HexDigits == <<"0", "1", "2", "3", "4", "5", "6", "7", "8", "9", "a", "b", "c", "d", "e", "f">>

\* the two hex digits of a channel value, and '#rrggbb' for three of them
Hex2(n) == <<HexDigits[(n \div 16) + 1], HexDigits[(n % 16) + 1]>>
HexColor(r, g, b) == <<"#">> \o Hex2(r) \o Hex2(g) \o Hex2(b)

\* parseInt(s, 16) of a string of hex digits
RECURSIVE parseInt16(_)
parseInt16(str) ==
  IF str = <<>> THEN 0
  ELSE 16 * parseInt16(SubSeq(str, 1, Len(str) - 1))
         + (CHOOSE v \in 0..15 : HexDigits[v + 1] = str[Len(str)])

Black == HexColor(0, 0, 0)
White == HexColor(255, 255, 255)

\* getContrastColor with >= where the code has >
getContrastColorInclusive(hexColor) ==
  LET color == ReplaceFirst(hexColor, <<"#">>, <<>>)
      r == parseInt16(SubSeq(color, 1, 2))
      g == parseInt16(SubSeq(color, 3, 4))
      b == parseInt16(SubSeq(color, 5, 6))
  IN IF r * 299 + g * 587 + b * 114 >= 128 * 1000 THEN Black ELSE White

\* getContrastColor: brightness = (r * 299 + g * 587 + b * 114) / 1000, and
\* brightness > 128 exactly when the sum is above 128000
getContrastColor(hexColor) ==
  LET color == ReplaceFirst(hexColor, <<"#">>, <<>>)
      r == parseInt16(SubSeq(color, 1, 2))
      g == parseInt16(SubSeq(color, 3, 4))
      b == parseInt16(SubSeq(color, 5, 6))
  IN IF r * 299 + g * 587 + b * 114 > 128 * 1000 THEN Black ELSE White

\* applyMarkerStyles: the colours the theme gives a marker chip
applyMarkerStyles(s) ==
  CASE s.theme = "dark" ->
         [backgroundColor |-> <<"#", "4", "a", "5", "5", "6", "8">>,
          color |-> <<"#", "c", "b", "d", "5", "e", "0">>,
          borderColor |-> <<"#", "5", "a", "6", "5", "7", "8">>]
    [] s.theme = "minimal" ->
         [backgroundColor |-> <<"#", "f", "5", "f", "5", "f", "5">>,
          color |-> <<"#", "6", "6", "6", "6", "6", "6">>,
          borderColor |-> <<"#", "e", "0", "e", "0", "e", "0">>]
    [] s.theme = "custom" ->
         [backgroundColor |-> s.markerColor,
          color |-> getContrastColor(s.markerColor),
          borderColor |-> s.borderColor]
    [] OTHER ->
         [backgroundColor |-> <<"#", "5", "b", "2", "1", "b", "6">>,
          color |-> <<"#", "c", "6", "a", "3", "f", "f">>,
          borderColor |-> <<"#", "8", "e", "6", "7", "f", "f">>]

\* no chip styled yet
NoStyle == [backgroundColor |-> <<>>, color |-> <<>>, borderColor |-> <<>>]

\* the inline style of an element nothing has styled: every property reads ''
NoInlineStyle ==
  [maxHeight |-> <<>>, boxShadow |-> <<>>, background |-> <<>>, borderColor |-> <<>>,
   color |-> <<>>, border |-> <<>>, scrollbarColor |-> <<>>, marker |-> NoStyle]

\* applyThemeStyles: the properties the theme's case assigns; the others keep
\* the value the element has
applyThemeStyles(style, s) ==
  CASE s.theme = "dark" ->
         [style EXCEPT !.background = <<"linear-gradient(145deg, #2d3748, #1a202c)">>,
                       !.borderColor = <<"#", "4", "a", "5", "5", "6", "8">>,
                       !.color = <<"#", "e", "2", "e", "8", "f", "0">>,
                       !.border = <<"1px solid ", "#", "4", "a", "5", "5", "6", "8">>,
                       !.scrollbarColor = <<"#4a5568 #2d3748">>]
    [] s.theme = "minimal" ->
         [style EXCEPT !.background = <<"#", "f", "f", "f", "f", "f", "f">>,
                       !.borderColor = <<"#", "e", "0", "e", "0", "e", "0">>,
                       !.color = <<"#", "3", "3", "3", "3", "3", "3">>,
                       !.border = <<"1px solid ", "#", "e", "0", "e", "0", "e", "0">>,
                       !.boxShadow = <<"0 2px 8px rgba(0, 0, 0, 0.05)">>]
    [] s.theme = "custom" ->
         [style EXCEPT !.background = s.backgroundColor,
                       !.borderColor = s.borderColor,
                       !.color = s.textColor,
                       !.border = <<"1px solid ">> \o s.borderColor]
    [] OTHER ->
         [style EXCEPT !.background = <<"linear-gradient(145deg, #313338, #2d2f32)">>,
                       !.borderColor = <<"#", "5", "b", "2", "1", "b", "6">>,
                       !.color = <<"#", "c", "6", "a", "3", "f", "f">>,
                       !.border = <<"1px solid ", "#", "5", "b", "2", "1", "b", "6">>,
                       !.scrollbarColor = <<"#8e67ff #313338">>]

\* applyContainerStyles on an element whose inline style is `style`: the base
\* properties, then the theme's
applyContainerStyles(style, s) ==
  applyThemeStyles([style EXCEPT !.maxHeight = <<s.maxHeight, "px">>,
                                 !.boxShadow = <<"0 4px 12px rgba(0, 0, 0, 0.1)">>], s)

\* the style of a container wrapSingleRange has built: applyContainerStyles on
\* the new element, applyMarkerStyles on each chip createMarker makes
createdStyle(s) ==
  [applyContainerStyles(NoInlineStyle, s) EXCEPT !.marker = applyMarkerStyles(s)]

\* updateExistingContainers: every container in the document and the chips in it
\* are styled again, in place
updateExistingContainers(d, s) ==
  [i \in 1..Len(d) |->
     IF d[i].kind = "box"
       THEN [d[i] EXCEPT !.style = [applyContainerStyles(@, s)
                                      EXCEPT !.marker = applyMarkerStyles(s)]]
     ELSE d[i]]

\* wrapSingleRange: the DOM it leaves; d is the DOM the scan ran on
wrapSingleRange(td, d, r, id, s) ==
  removeRangeElements(
    insertBefore(td, Box(id, processRangeElements(d, r), generateRangeKey(d, r),
                         createdStyle(s)),
                 startElement(r)), r)

\* what wrapSingleRange hands back for the container it built: the function
\* ends without a return statement
wrapSingleRangeResult(id) == Undefined

RECURSIVE WrapFrom(_, _, _, _, _, _, _, _, _)
\* the forEach of wrapThinkingBlocks: containers collects the truthy results,
\* inserted the containers put into the DOM.  failing holds the indices of the
\* ranges whose wrapSingleRange throws before it inserts its container: the
\* catch in the callback logs the error and the loop goes on
WrapFrom(td, d, ranges, ids, k, containers, inserted, s, failing) ==
  IF k > Len(ranges)
    THEN [dom |-> Untagged(td), containers |-> containers, inserted |-> inserted]
  ELSE IF k \in failing
    THEN WrapFrom(td, d, ranges, ids, k + 1, containers, inserted, s, failing)
  ELSE LET container == wrapSingleRangeResult(ids[k])
       IN WrapFrom(wrapSingleRange(td, d, ranges[k], ids[k], s), d, ranges, ids, k + 1,
                   IF container # Undefined THEN Append(containers, container)
                                            ELSE containers,
                   Append(inserted, ids[k]), s, failing)

\* the indices of ranges up to the first one that throws, that one excluded
BeforeFirstFailure(ranges, failing) ==
  {k \in 1..Len(ranges) : \A f \in failing : k < f}

\* wrapThinkingBlocks without the try around wrapSingleRange: the first throw
\* ends the forEach
wrapThinkingBlocksUnguarded(d, ranges, s, ids, failing) ==
  IF ~s.enabled THEN [dom |-> d, containers |-> <<>>, inserted |-> <<>>]
  ELSE WrapFrom(Tagged(d), d, ranges, ids, 1, <<>>, <<>>, s,
                (1..Len(ranges)) \ BeforeFirstFailure(ranges, failing))

\* wrapThinkingBlocks without its early return for a disabled configuration
wrapThinkingBlocksAlways(d, ranges, s, ids, failing) ==
  WrapFrom(Tagged(d), d, ranges, ids, 1, <<>>, <<>>, s, failing)

\* wrapThinkingBlocks of a styler whose settings are s
wrapThinkingBlocks(d, ranges, s, ids, failing) ==
  IF ~s.enabled THEN [dom |-> d, containers |-> <<>>, inserted |-> <<>>]
  ELSE WrapFrom(Tagged(d), d, ranges, ids, 1, <<>>, <<>>, s, failing)

\* ------------------------------------------------------------------- state
VARIABLES
  dom,                 \* the host list's children, in document order
  processedBlocks,     \* ThinkBlockDetector.processedBlocks
  settings,            \* ThinkBlockStyler.settings
  observer,            \* ThinkBlockMonitor.observer is attached
  scrollContainer,     \* ThinkBlockMonitor.scrollContainer: "null" or "scroller"
  scrollListeners,     \* 'scroll' listeners of the monitor on the scroll container
  intersectionObserver,\* ThinkBlockMonitor.intersectionObserver: 0 (null) or the
                       \* number of the startMonitoring call that created it
  ioObserving,         \* the intersection observers that watch rows
  ioRecheck,           \* the observers whose observeChildren re-check timer is pending
  ioUnwatched,         \* the host has mounted a row since the live intersection
                       \* observer last ran observeChildren (FALSE without one)
  starts,              \* startMonitoring calls so far
  processingTimeout,   \* the pending mutation debounce timer: "none", or whether
                       \* the batch it holds is "relevant", "raw" or "irrelevant"
  scrollTimeout,       \* the scroll debounce timer is pending
  resetTimers,         \* pending timers of handleScroll that reset the baseline
  ioTimers,            \* pending timers of the intersection callback
  pendingRestores,     \* deferred height-adjusted restores, oldest first
  isProcessing,        \* ThinkBlockMonitor.isProcessing
  lastScrollPosition,  \* ThinkBlockMonitor.lastScrollPosition
  scrollTop,           \* the scroll container's offset
  monitoring,          \* "idle" before startMonitoring and after stopMonitoring,
                       \* "observing" after startMonitoring
  lastPass,            \* what the step just taken did, if it ran processCurrentContent
  lastRestore,         \* what the step just taken did, if it ran a deferred restore
  location,            \* location.href
  lastUrl,             \* the content script's lastUrl
  isInitialized,       \* the content script's isInitialized
  instances,           \* which of detector, styler, monitor are not null
  initTimers,          \* pending setTimeout(initialize, 1000) timers
  initAwaiting,        \* initialize() calls suspended in await styler.initialize()
  lastInit,            \* how the initialize() call of the step just taken ended
  store,               \* what chrome.storage.sync holds
  detectorSettings,    \* ThinkBlockDetector.settings
  debugMode,           \* ThinkBlockDetector.debugMode
  storageAwaiting,     \* storage-change handlers suspended in styler.initialize()
  markerStyle,         \* the style applyMarkerStyles last gave a marker chip
  lastAdjust           \* the call of calculateHeightAdjustmentForAnchor the step
                       \* just taken made on its own, and what it returned

detVars == <<dom, processedBlocks, settings>>
obsVars == <<observer, scrollContainer, scrollListeners, intersectionObserver,
             ioObserving, ioRecheck, starts, monitoring>>
timerVars == <<processingTimeout, scrollTimeout, resetTimers, ioTimers>>
scrollVars == <<isProcessing, lastScrollPosition, scrollTop>>
monVars == <<obsVars, timerVars, scrollVars, pendingRestores, ioUnwatched>>
cfgVars == <<store, detectorSettings, debugMode, storageAwaiting, markerStyle>>
orchVars == <<location, lastUrl, isInitialized, instances, initTimers, initAwaiting,
              lastInit, cfgVars>>
vars == <<detVars, monVars, lastPass, lastRestore, lastAdjust, orchVars>>

\* ------------------------------------------------------- environment inputs
MaxStarts == 1       \* startMonitoring calls in one behaviour
MaxTimers == 1       \* pending timers of one kind
MaxRows == 2         \* most elements mounted while the monitor runs
MaxPending == 1      \* deferred restores pending at once
MaxScrollTop == 400  \* the scroll container's largest offset

ElemHeights == {60}                 \* offsetHeight plus margins of a candidate
ContainerHeights == {80, 140}       \* offsetHeight plus margins of a container
ScrollExtents == {0, 400}           \* scrollHeight - clientHeight
UserScrollPositions == {0, 100}

\* ------------------------------------------------------------ Change Monitor
ScrollThreshold == 50
RestoreThreshold == 5
MinHeightDifference == 5

Abs(x) == IF x < 0 THEN -x ELSE x
Max(a, b) == IF a >= b THEN a ELSE b
Min(a, b) == IF a <= b THEN a ELSE b

RECURSIVE SumHeights(_, _, _)
SumHeights(r, hs, k) == IF k > Len(r) THEN 0 ELSE hs[r[k]] + SumHeights(r, hs, k + 1)

RECURSIVE SumRanges(_, _, _)
\* measureContentHeights: totalOriginalHeight; an element of height 0 adds nothing
SumRanges(ranges, hs, k) ==
  IF k > Len(ranges) THEN 0 ELSE SumHeights(ranges[k], hs, 1) + SumRanges(ranges, hs, k + 1)

\* the same measurement taken once the wrap has detached the elements: an
\* element out of the document has offsetHeight 0
measureDetachedHeights(ranges, hs) == 0

measureContentHeights(ranges, hs) == SumRanges(ranges, hs, 1)

SeqRange(q) == {q[i] : i \in 1..Len(q)}

BoxIds(d) == {d[i].id : i \in {j \in 1..Len(d) : d[j].kind = "box"}}

\* document.contains(container)
documentContains(d, id) == id \in BoxIds(d)

IdsInUse(d, pend) == BoxIds(d) \cup UNION {SeqRange(pend[i].inserted) : i \in 1..Len(pend)}

RECURSIVE FreshIds(_, _)
\* n handles no live or pending container has, smallest first
FreshIds(used, n) ==
  IF n = 0 THEN <<>>
  ELSE LET id == CHOOSE i \in (1..MaxIds) \ used : \A j \in (1..MaxIds) \ used : i <= j
       IN <<id>> \o FreshIds(used \cup {id}, n - 1)

NoPass == [op |-> "none", n |-> 0, enabled |-> FALSE, ranges |-> <<>>, evicted |-> {},
           scanned |-> {}, containers |-> <<>>, inserted |-> <<>>, failed |-> {},
           console |-> NoLog]

NoAdjust == [op |-> "none"]

NoRestore == [op |-> "none", old |-> 0, new |-> 0, delta |-> 0, anchor |-> "none",
              anchorTop |-> 0, inserted |-> <<>>, after |-> 0]

\* captureScrollAnchor: null without a scroll container; else the offset and the
\* reference element found at 30% of the viewport ("element"; "none" for a pass
\* that captures for nothing).  Whether that element is still in the document
\* is only read by the restore: see AnchorFates
captureScrollAnchor(container, top, anchor) ==
  [null |-> container = "null", scrollTop |-> top, anchorElement |-> anchor]

\* processCurrentContent on DOM d with processed set pb: hs are the heights the
\* layout reports for the elements, anchor the element captureScrollAnchor finds.
\* container is this.scrollContainer and s the styler's settings at the call.
\* failing are the ranges of the scan whose wrapSingleRange throws.
\* Gives the DOM, the processed set, the deferred restores and the step's record.
processCurrentContent(d, pb, pend, hs, anchor, container, s, failing) ==
  LET scan == scanDocument(d, pb, debugMode)
      ranges == scan.ranges
  IN IF Len(ranges) = 0
       THEN [dom |-> d, pb |-> scan.pb, pending |-> pend,
             pass |-> [NoPass EXCEPT !.op = "pass", !.n = 1 - lastPass.n,
                                     !.enabled = s.enabled,
                                     !.evicted = pb \ scan.pb, !.scanned = scan.pb,
                                     !.console = scan.console]]
     ELSE LET scrollAnchor == captureScrollAnchor(container, scrollTop, anchor)
              heightMeasurements == measureContentHeights(ranges, hs)
              results == wrapThinkingBlocks(d, ranges, s,
                                            FreshIds(IdsInUse(d, pend), Len(ranges)),
                                            failing)
              job == [scrollTop |-> scrollAnchor.scrollTop,
                      anchorElement |-> scrollAnchor.anchorElement,
                      totalOriginalHeight |-> heightMeasurements,
                      containers |-> results.containers, inserted |-> results.inserted]
          IN [dom |-> results.dom,
              pb |-> MarkAll(d, ranges, 1, scan.pb),
              \* restoreScrollPositionWithHeightAdjustment returns at once
              \* without an anchor or a scroll container
              pending |-> IF scrollAnchor.null \/ container = "null"
                            THEN pend ELSE Append(pend, job),
              pass |-> [op |-> "pass", n |-> 1 - lastPass.n, enabled |-> s.enabled,
                        ranges |-> ranges, evicted |-> pb \ scan.pb, scanned |-> scan.pb,
                        containers |-> results.containers, inserted |-> results.inserted,
                        failed |-> failing, console |-> scan.console]]

\* containsThinkingMarkers, on the text content of a node
containsThinkingMarkers(text) == Includes(text, startMarker) \/ Includes(text, endMarker)

\* handleMutations for a batch delivered while the observer is attached: the
\* debounce timer it leaves (a new timer replaces the pending one and its batch)
\* a batch by the texts of its added nodes: "relevant" if containsThinkingMarkers
\* holds of one of them, else "raw" if one of them holds a marker as the
\* detector matches it, with its angle brackets, else "irrelevant"
BatchKind(texts) ==
  IF \E t \in texts : containsThinkingMarkers(t) THEN "relevant"
  ELSE IF \E t \in texts : Includes(t, RawMarker(startMarker))
                             \/ Includes(t, RawMarker(endMarker))
    THEN "raw"
  ELSE "irrelevant"

handleMutations(kind, processing, pendingTimer) ==
  IF processing THEN pendingTimer ELSE kind

\* the texts of the nodes the records of a pass's own wrap carry as added
WrapAddsMarkerText(d, inserted) ==
  {NodeText(d[i]) : i \in {j \in 1..Len(d) : d[j].kind = "box"
                                               /\ d[j].id \in SeqRange(inserted)}}

\* The mutation observer's callback runs once the task that changed the DOM has
\* ended: the timer left after a task that ended with isProcessing = processing
AfterOwnRecords(attached, processing, pendingTimer) ==
  IF attached /\ dom' # dom
    THEN handleMutations(BatchKind(WrapAddsMarkerText(dom', lastPass'.inserted)),
                         processing, pendingTimer)
  ELSE pendingTimer

PositionsOf(ranges) == UNION {SeqRange(ranges[k]) : k \in 1..Len(ranges)}

\* one call of processCurrentContent, starting from processed set pb, with
\* this.scrollContainer = container and the styler's settings s
\* at most `most` restores are left waiting; with faults, wrapSingleRange
\* throws for some of the ranges
RunPassFaulty(pb, container, s, most, faults) ==
  LET ranges == scanDocument(dom, pb, debugMode).ranges
      deferred == Len(ranges) > 0 /\ container # "null"
  IN /\ Cardinality((1..MaxIds) \ IdsInUse(dom, pendingRestores)) >= Len(ranges)
     /\ deferred => Len(pendingRestores) < most
     /\ \E hs \in [PositionsOf(ranges) -> IF deferred THEN ElemHeights ELSE {0}],
           anchor \in IF deferred THEN {"element"} ELSE {"none"},
           failing \in IF faults THEN SUBSET (1..Len(ranges)) ELSE {{}} :
          LET res == processCurrentContent(dom, pb, pendingRestores, hs, anchor, container,
                                          s, failing)
          IN /\ dom' = res.dom
             /\ processedBlocks' = res.pb
             /\ pendingRestores' = res.pending
             /\ lastPass' = res.pass
             /\ lastRestore' = NoRestore
             /\ lastAdjust' = NoAdjust

RunPassUpTo(pb, container, s, most) == RunPassFaulty(pb, container, s, most, FALSE)

RunPassWith(pb, container, s) == RunPassUpTo(pb, container, s, MaxPending)

RunPass(pb) == RunPassWith(pb, scrollContainer, settings)

NoRecord == lastPass' = NoPass /\ lastRestore' = NoRestore /\ lastAdjust' = NoAdjust

\* ------------------------------------------------------------- orchestrator
ChatA == <<"https://janitorai.com", "/chats/", "a">>
ChatB == <<"https://janitorai.com", "/chats/", "b">>
Home == <<"https://janitorai.com", "/">>
Pages == {ChatA, ChatB, Home}

\* isValidPage: /https:\/\/janitorai\.com\/chats\// matches anywhere in the url
isValidPage(url) == Includes(url, <<"https://janitorai.com", "/chats/">>)

\* the methods class ThinkBlockMonitor defines
ThinkBlockMonitorMethods ==
  {"startMonitoring", "findChatContainer", "setupScrollMonitoring", "getScrollPosition",
   "handleScroll", "setupIntersectionObserver", "monitorElement", "handleMutations",
   "processChanges", "containsThinkingMarkers", "processCurrentContent",
   "measureContentHeights", "captureScrollAnchor", "restoreScrollPosition", "restoreScrollPositionWithHeightAdjustment",
   "performHeightAdjustedRestore", "performAnchorBasedRestore",
   "calculateHeightAdjustmentForAnchor", "performHeightBasedRestore",
   "scrollToPosition", "fallbackScrollRestore", "stopMonitoring"}

MaxInitTimers == 2   \* pending initialize timers
MaxAwaiting == 2     \* initialize() calls suspended at once

\* ------------------------------------------------------------------ actions
\* ThinkBlockMonitor.processCurrentContent, called on the monitor
ProcessCurrentContent ==
  /\ RunPass(processedBlocks)
  /\ processingTimeout' = AfterOwnRecords(observer, isProcessing, processingTimeout)
  /\ UNCHANGED <<settings, obsVars, scrollTimeout, resetTimers, ioTimers, scrollVars>>
  /\ UNCHANGED <<orchVars, ioUnwatched>>

\* processCurrentContent in which building a container may throw
ProcessWithFaults ==
  /\ RunPassFaulty(processedBlocks, scrollContainer, settings, MaxPending, TRUE)
  /\ processingTimeout' = AfterOwnRecords(observer, isProcessing, processingTimeout)
  /\ UNCHANGED <<settings, obsVars, scrollTimeout, resetTimers, ioTimers, scrollVars>>
  /\ UNCHANGED <<orchVars, ioUnwatched>>

InsertAt(d, i, node) == SubSeq(d, 1, i - 1) \o <<node>> \o SubSeq(d, i, Len(d))
RemoveAt(d, i) == SubSeq(d, 1, i - 1) \o SubSeq(d, i + 1, Len(d))

RECURSIVE Mounted(_)
\* the elements the host has mounted: a container stands for the ones it replaced
Mounted(d) ==
  IF d = <<>> THEN 0
  ELSE (IF Head(d).kind = "box" THEN Len(Head(d).content) ELSE 1) + Mounted(Tail(d))

\* the host mounts a leaf element with one of the texts, at most `most` mounted
HostAdd(texts, most) ==
  /\ Mounted(dom) < most
  /\ \E i \in 1..(Len(dom) + 1), t \in texts :
       /\ dom' = InsertAt(dom, i, Div(t))
       \* no observeChildren call follows the mount
       /\ ioUnwatched' = (ioUnwatched \/ intersectionObserver # 0)
       /\ processingTimeout' =
            IF observer THEN handleMutations(BatchKind({t}), isProcessing,
                                             processingTimeout)
            ELSE processingTimeout
  /\ NoRecord
  /\ UNCHANGED <<processedBlocks, settings, obsVars, scrollTimeout, resetTimers,
                 ioTimers, scrollVars, pendingRestores>>
  /\ UNCHANGED orchVars

HostAddElement == HostAdd(HostTexts, MaxDom)

\* the host unmounts a node (a candidate, or a styled container)
HostRemoveNode ==
  /\ \E i \in 1..Len(dom) :
       /\ dom' = RemoveAt(dom, i)
       /\ processingTimeout' =
            IF observer THEN handleMutations(BatchKind({}), isProcessing,
                                             processingTimeout)
            ELSE processingTimeout
  /\ NoRecord
  /\ UNCHANGED <<processedBlocks, settings, obsVars, scrollTimeout, resetTimers,
                 ioTimers, scrollVars, pendingRestores>>
  /\ UNCHANGED <<orchVars, ioUnwatched>>

\* the settings the styler's constructor sets; debugMode is not among them,
\* and an absent debugMode reads as false wherever it is tested
DefaultSettings ==
  [enabled |-> TRUE, debugMode |-> FALSE, maxHeight |-> 200, theme |-> "default",
   backgroundColor |-> <<"#", "3", "1", "3", "3", "3", "8">>,
   borderColor |-> <<"#", "5", "b", "2", "1", "b", "6">>,
   textColor |-> <<"#", "c", "6", "a", "3", "f", "f">>,
   markerColor |-> <<"#", "8", "e", "6", "7", "f", "f">>]

\* detector.settings as the detector's constructor leaves it
NullSettings == [null |-> TRUE]

\* what the install hook writes to the store
InstalledStore == [enabled |-> TRUE, theme |-> "default", maxHeight |-> 300]

\* the store before the hook has run
EmptyStore == [k \in {} |-> TRUE]

\* what the store may hold: nothing, the installed values, or the installed
\* values with one setting changed by the user
Stores ==
  {EmptyStore, InstalledStore, [InstalledStore EXCEPT !.enabled = FALSE],
   [enabled |-> TRUE, theme |-> "default", maxHeight |-> 300, debugMode |-> TRUE]}

\* {...this.settings, ...stored}
MergeStored(current, stored) ==
  [k \in DOMAIN current |-> IF k \in DOMAIN stored THEN stored[k] ELSE current[k]]

\* how chrome.storage.sync.get() may end for styler.initialize(): chrome.storage
\* or chrome.storage.sync is missing, the read rejects, or it yields the store
Answered(stored) == [kind |-> "stored", value |-> stored]
StoreUnavailable == [kind |-> "unavailable"]
ReadRejected == [kind |-> "rejected"]

\* styler.initialize() that falls back to the constructor's settings
stylerInitializeFromDefaults(current, answer) ==
  IF answer.kind = "stored" THEN MergeStored(DefaultSettings, answer.value)
  ELSE DefaultSettings

\* styler.initialize(): the settings it leaves
stylerInitialize(current, answer) ==
  IF answer.kind = "stored" THEN MergeStored(current, answer.value)
  ELSE \* the else branch, or the catch: a line on the console
       current

\* the settings objects a SETTINGS_UPDATED message may carry
Themes == {"default", "dark", "minimal", "custom"}

EnabledMessages == {[enabled |-> e] : e \in BOOLEAN}
ThemeMessages == {[theme |-> t] : t \in Themes}
DebugMessages == {[debugMode |-> b] : b \in BOOLEAN}

\* the SETTINGS_UPDATED message: styler.settings = {...styler.settings, ...message.settings},
\* then updateExistingContainers
SettingsUpdatedWith(messages) ==
  /\ instances.styler
  /\ \E m \in messages : settings' = MergeStored(settings, m)
  /\ settings' # settings
  /\ dom' = updateExistingContainers(dom, settings')
  /\ NoRecord
  /\ UNCHANGED <<processedBlocks, monVars>>
  /\ UNCHANGED orchVars

SettingsUpdated == SettingsUpdatedWith(EnabledMessages)

\* the detector, the styler and the monitor as their constructors leave them
ConstructedWith(s) ==
  /\ dom = <<>>
  /\ processedBlocks = {}
  /\ settings = s
  /\ detectorSettings = NullSettings
  /\ debugMode = FALSE
  /\ observer = FALSE
  /\ scrollContainer = "null"
  /\ scrollListeners = 0
  /\ intersectionObserver = 0
  /\ ioObserving = {}
  /\ ioRecheck = {}
  /\ starts = 0
  /\ processingTimeout = "none"
  /\ scrollTimeout = FALSE
  /\ resetTimers = 0
  /\ ioTimers = 0
  /\ pendingRestores = <<>>
  /\ ioUnwatched = FALSE
  /\ isProcessing = FALSE
  /\ lastScrollPosition = 0
  /\ scrollTop = 0
  /\ monitoring = "idle"
  /\ lastPass = NoPass
  /\ lastRestore = NoRestore
  /\ lastAdjust = NoAdjust

Constructed == ConstructedWith(DefaultSettings)

\* on a chat page, with no orchestrator event pending
Settled ==
  /\ location = ChatA
  /\ lastUrl = ChatA
  /\ isInitialized = FALSE
  /\ instances = [detector |-> TRUE, styler |-> TRUE, monitor |-> TRUE]
  /\ initTimers = 0
  /\ initAwaiting = 0
  /\ lastInit = "none"
  /\ store = InstalledStore
  /\ storageAwaiting = 0
  /\ markerStyle = NoStyle

\* the three objects constructed, on a chat page, with no orchestrator event pending
Init == Constructed /\ Settled

Next ==
  \/ HostAddElement
  \/ HostRemoveNode
  \/ SettingsUpdated
  \/ ProcessCurrentContent

Spec == Init /\ [][Next]_vars

\* ----------------------------------------------------- the monitor's events
\* the fraction num / den, den > 0
Frac(num, den) == [num |-> num, den |-> den]

\* the adjustment with the ratio scrollTop / max(1, scrollHeight - clientHeight)
\* taken as it is, not capped at 1
calculateHeightAdjustmentUncapped(top, totalHeightDifference, extent) ==
  IF Abs(totalHeightDifference) < MinHeightDifference THEN Frac(0, 1)
  ELSE LET scrollRange == Max(1, extent)
       IN Frac(totalHeightDifference * (7 * scrollRange + 3 * top), 10 * scrollRange)

\* calculateHeightAdjustmentForAnchor: totalHeightDifference * (0.7 + 0.3 * ratio)
\* with ratio = min(1, scrollTop / max(1, scrollHeight - clientHeight))
calculateHeightAdjustmentForAnchor(top, totalHeightDifference, extent) ==
  IF Abs(totalHeightDifference) < MinHeightDifference THEN Frac(0, 1)
  ELSE LET scrollRange == Max(1, extent)
       IN Frac(totalHeightDifference * (7 * scrollRange + 3 * Min(scrollRange, top)),
               10 * scrollRange)

\* the inputs of calculateHeightAdjustmentForAnchor: the captured scrollTop,
\* the height difference, and scrollHeight - clientHeight of the container
AnchorTops == {0, 1, 10, 25, 99, 100, 101, 250}
HeightDifferences == {-40, -20, -5, -4, 0, 4, 5, 40}
AdjustExtents == {-50, 0, 1, 25, 100}

\* calculateHeightAdjustmentForAnchor is called
CalculateHeightAdjustment ==
  /\ \E top \in AnchorTops, diff \in HeightDifferences, extent \in AdjustExtents :
       lastAdjust' = [op |-> "adjust", scrollTop |-> top, totalHeightDifference |-> diff,
                      extent |-> extent,
                      result |-> calculateHeightAdjustmentForAnchor(top, diff, extent)]
  /\ lastPass' = NoPass
  /\ lastRestore' = NoRestore
  /\ UNCHANGED <<detVars, monVars, orchVars>>

RECURSIVE TotalHeight(_, _)
TotalHeight(ids, ch) ==
  IF ids = {} THEN 0
  ELSE LET id == CHOOSE x \in ids : TRUE IN ch[id] + TotalHeight(ids \ {id}, ch)

\* performHeightAdjustedRestore: the height difference it computes from the
\* containers it was handed, and the offset it asks scrollToPosition for, if any
performHeightAdjustedRestore(job, d, current, ch, extent) ==
  LET measured == {id \in SeqRange(job.containers) : documentContains(d, id)}
      totalHeightDifference ==
        IF Len(job.containers) > 0
          THEN TotalHeight(measured, ch) - job.totalOriginalHeight
        ELSE 0
      adjustment ==
        IF job.anchorElement = "alive"
          \* performAnchorBasedRestore
          THEN calculateHeightAdjustmentForAnchor(job.scrollTop, totalHeightDifference,
                                                  extent)
        \* performHeightBasedRestore: 80% of the difference
        ELSE Frac(8 * totalHeightDifference, 10)
      target == Frac(job.scrollTop * adjustment.den + adjustment.num, adjustment.den)
      clamped == IF target.num < 0 THEN Frac(0, 1) ELSE target
      \* the anchor path compares the offset as computed, the fallback the clamped one
      compared == IF job.anchorElement = "alive" THEN target ELSE clamped
  IN [delta |-> totalHeightDifference,
      scrolls |-> Abs(compared.num - current * compared.den)
                    > RestoreThreshold * compared.den,
      to |-> clamped]

\* the offset the scroll container takes when assigned f: whole pixels, rounded
\* either way, within its scrollable range
Settle(f, up) ==
  LET floor == f.num \div f.den
      px == IF up /\ floor * f.den # f.num THEN floor + 1 ELSE floor
  IN Min(MaxScrollTop, Max(0, px))

\* a scroll event reaches every listener still registered: handleScroll
\* restarts the 150 ms debounce
handleScroll(moved) == IF moved /\ scrollListeners > 0 THEN TRUE ELSE scrollTimeout

\* startMonitoring on a monitor whose detector holds pb, whose styler has
\* the settings s, whose isProcessing is processing and whose
\* mutation debounce timer is pendingTimer
startMonitoring(pb, s, processing, pendingTimer) ==
  /\ starts < MaxStarts
  /\ starts' = starts + 1
  \* monitorElement: a new observer replaces the previous one
  /\ observer' = TRUE
  \* setupScrollMonitoring
  /\ scrollContainer' = "scroller"
  /\ scrollListeners' = scrollListeners + 1
  /\ lastScrollPosition' = scrollTop
  \* setupIntersectionObserver: the rows are observed, the re-check is scheduled
  /\ intersectionObserver' = starts + 1
  /\ ioObserving' = ioObserving \cup {starts + 1}
  /\ ioRecheck' = ioRecheck \cup {starts + 1}
  /\ ioUnwatched' = FALSE
  /\ monitoring' = "observing"
  \* processCurrentContent, after the scroll container has been set
  /\ RunPassWith(pb, scrollContainer', s)
  /\ processingTimeout' = AfterOwnRecords(TRUE, processing, pendingTimer)

StartMonitoring ==
  /\ startMonitoring(processedBlocks, settings, isProcessing, processingTimeout)
  /\ UNCHANGED <<settings, scrollTimeout, resetTimers, ioTimers, isProcessing, scrollTop>>
  /\ UNCHANGED orchVars

\* the listeners removeEventListener('scroll', this.handleScroll.bind(this))
\* takes off: the bound function is a new one, never the one registered
ListenersRemovedByStop == 0

stopMonitoring ==
  /\ observer' = FALSE
  /\ scrollListeners' = scrollListeners - ListenersRemovedByStop
  /\ ioObserving' = ioObserving \ {intersectionObserver}
  /\ intersectionObserver' = 0
  /\ ioUnwatched' = FALSE
  /\ processingTimeout' = "none"
  /\ scrollTimeout' = FALSE
  /\ monitoring' = "idle"

\* stopMonitoring, called on a monitor that was started
StopMonitoring ==
  /\ monitoring = "observing"
  /\ stopMonitoring
  /\ NoRecord
  /\ UNCHANGED <<detVars, settings, scrollContainer, ioRecheck, starts, resetTimers,
                 ioTimers, pendingRestores, isProcessing, lastScrollPosition, scrollTop>>
  /\ UNCHANGED orchVars

\* the user scrolls the conversation to one of the offsets
UserScrollTo(positions) ==
  /\ \E p \in positions :
       /\ p # scrollTop
       /\ scrollTop' = p
  /\ scrollTimeout' = handleScroll(TRUE)
  /\ NoRecord
  /\ UNCHANGED <<detVars, settings, obsVars, processingTimeout, resetTimers, ioTimers,
                 pendingRestores, isProcessing, lastScrollPosition, monitoring>>
  /\ UNCHANGED <<orchVars, ioUnwatched>>

UserScroll == UserScrollTo(UserScrollPositions)

\* a 150 ms timer that takes the offset it finds as the new baseline each time
\* it fires
ScrollDebounceRebasing(most) ==
  /\ scrollTimeout
  /\ scrollTimeout' = FALSE
  /\ IF Abs(scrollTop - lastScrollPosition) > ScrollThreshold
       THEN /\ resetTimers < MaxTimers
            /\ RunPassUpTo(clearProcessedBlocks(processedBlocks), scrollContainer,
                           settings, most)
            /\ isProcessing' = TRUE
            /\ resetTimers' = resetTimers + 1
            /\ processingTimeout' = AfterOwnRecords(observer, TRUE, processingTimeout)
     ELSE /\ NoRecord
          /\ UNCHANGED <<detVars, pendingRestores, isProcessing, resetTimers,
                         processingTimeout>>
  /\ lastScrollPosition' = scrollTop
  /\ UNCHANGED <<settings, obsVars, ioTimers, scrollTop, monitoring>>
  /\ UNCHANGED <<orchVars, ioUnwatched>>

\* the 150 ms timer of handleScroll fires
ScrollDebounceUpTo(most) ==
  /\ scrollTimeout
  /\ scrollTimeout' = FALSE
  /\ IF Abs(scrollTop - lastScrollPosition) > ScrollThreshold
       THEN /\ resetTimers < MaxTimers
            /\ RunPassUpTo(clearProcessedBlocks(processedBlocks), scrollContainer,
                           settings, most)
            /\ isProcessing' = TRUE
            /\ resetTimers' = resetTimers + 1
            \* the pass's own records arrive while isProcessing is set
            /\ processingTimeout' = AfterOwnRecords(observer, TRUE, processingTimeout)
     ELSE /\ NoRecord
          /\ UNCHANGED <<detVars, pendingRestores, isProcessing, resetTimers,
                         processingTimeout>>
  /\ UNCHANGED <<settings, obsVars, ioTimers, lastScrollPosition, scrollTop, monitoring>>
  /\ UNCHANGED <<orchVars, ioUnwatched>>

ScrollDebounceTimer == ScrollDebounceUpTo(MaxPending)

\* a 100 ms timer that takes the baseline and leaves isProcessing alone
ResetTimerBaselineOnly ==
  /\ resetTimers > 0
  /\ resetTimers' = resetTimers - 1
  /\ lastScrollPosition' = scrollTop
  /\ NoRecord
  /\ UNCHANGED <<detVars, settings, obsVars, processingTimeout, scrollTimeout, ioTimers,
                 pendingRestores, scrollTop, monitoring, isProcessing>>
  /\ UNCHANGED <<orchVars, ioUnwatched>>

\* the 100 ms timer a significant scroll leaves fires
ResetTimer ==
  /\ resetTimers > 0
  /\ resetTimers' = resetTimers - 1
  /\ lastScrollPosition' = scrollTop
  /\ isProcessing' = FALSE
  /\ NoRecord
  /\ UNCHANGED <<detVars, settings, obsVars, processingTimeout, scrollTimeout, ioTimers,
                 pendingRestores, scrollTop, monitoring>>
  /\ UNCHANGED <<orchVars, ioUnwatched>>

\* the intersection observer's callback for a generation still observing rows:
\* a visible row's text includes 'think', so a pass is scheduled 100 ms later
IntersectionCallback ==
  /\ ioObserving # {}
  /\ \E i \in 1..Len(dom) : Includes(NodeText(dom[i]), <<"think">>)
  /\ ioTimers < MaxTimers
  /\ ioTimers' = ioTimers + 1
  /\ NoRecord
  /\ UNCHANGED <<detVars, settings, obsVars, processingTimeout, scrollTimeout,
                 resetTimers, pendingRestores, scrollVars>>
  /\ UNCHANGED <<orchVars, ioUnwatched>>

\* the 100 ms timer of the intersection callback fires: processCurrentContent
IntersectionTimer ==
  /\ ioTimers > 0
  /\ ioTimers' = ioTimers - 1
  /\ RunPass(processedBlocks)
  /\ processingTimeout' = AfterOwnRecords(observer, isProcessing, processingTimeout)
  /\ UNCHANGED <<settings, obsVars, scrollTimeout, resetTimers, scrollVars>>
  /\ UNCHANGED <<orchVars, ioUnwatched>>

\* the 1000 ms re-check of setupIntersectionObserver fires: observeChildren on
\* the observer it captured
RecheckTimer ==
  /\ \E g \in ioRecheck :
       /\ ioRecheck' = ioRecheck \ {g}
       /\ ioObserving' = ioObserving \cup {g}
       \* observer.observe(child) for every row now in the list
       /\ ioUnwatched' = (IF g = intersectionObserver THEN FALSE ELSE ioUnwatched)
  /\ NoRecord
  /\ UNCHANGED <<detVars, settings, observer, scrollContainer, scrollListeners,
                 intersectionObserver, starts, monitoring, timerVars, pendingRestores,
                 scrollVars>>
  /\ UNCHANGED orchVars

\* processChanges: hasRelevantChanges for a batch of the kind
hasRelevantChanges(kind) == kind = "relevant"

\* the debounce timer of handleMutations fires: processChanges on its batch
MutationDebounceTimer ==
  /\ processingTimeout # "none"
  /\ IF hasRelevantChanges(processingTimeout)
       THEN /\ RunPass(processedBlocks)
            \* the pass's own records arrive after isProcessing is reset
            /\ processingTimeout' = AfterOwnRecords(observer, FALSE, "none")
     ELSE /\ NoRecord
          /\ processingTimeout' = "none"
          /\ UNCHANGED <<detVars, pendingRestores>>
  /\ isProcessing' = FALSE
  /\ UNCHANGED <<settings, obsVars, scrollTimeout, resetTimers, ioTimers,
                 lastScrollPosition, scrollTop, monitoring>>
  /\ UNCHANGED <<orchVars, ioUnwatched>>

\* what the restore finds of the captured reference element: "alive" when
\* document.contains(anchor.element), "none" when nothing was hit at the capture
\* or the element has left the document since (the same branch for both)
AnchorFates(held) ==
  IF held.anchorElement = "element" THEN {"none", "alive"} ELSE {"none"}

\* the animation frame and 50 ms timer of the oldest deferred restore have
\* passed: performHeightAdjustedRestore
RestoreTimer ==
  /\ pendingRestores # <<>>
  /\ pendingRestores' = Tail(pendingRestores)
  /\ \E fate \in AnchorFates(Head(pendingRestores)) :
     LET job == [Head(pendingRestores) EXCEPT !.anchorElement = fate]
     IN \E ch \in [SeqRange(job.inserted) -> ContainerHeights],
           \* only the anchor path reads the scroll extent
           extent \in IF job.anchorElement = "alive" THEN ScrollExtents ELSE {0} :
          LET res == performHeightAdjustedRestore(job, dom, scrollTop, ch, extent)
              live == {id \in SeqRange(job.inserted) : documentContains(dom, id)}
              \* a whole offset is taken as it is
              ways == IF res.scrolls /\ res.to.num % res.to.den # 0
                        THEN BOOLEAN ELSE {FALSE}
          IN /\ \E up \in ways :
                  scrollTop' = (IF res.scrolls THEN Settle(res.to, up) ELSE scrollTop)
             /\ lastRestore' = [op |-> "restore", old |-> job.totalOriginalHeight,
                                new |-> TotalHeight(live, ch), delta |-> res.delta,
                                anchor |-> job.anchorElement,
                                anchorTop |-> job.scrollTop,
                                inserted |-> job.inserted, after |-> scrollTop']
  /\ scrollTimeout' = handleScroll(scrollTop' # scrollTop)
  /\ lastPass' = NoPass
  /\ lastAdjust' = NoAdjust
  /\ UNCHANGED <<detVars, settings, obsVars, processingTimeout, resetTimers, ioTimers,
                 isProcessing, lastScrollPosition, monitoring>>
  /\ UNCHANGED <<orchVars, ioUnwatched>>

\* a text whose content is the escaped start marker, as the page shows it
LiteralStart == startMarker

MonitorHostTexts == {RawStart, RawEnd, LiteralStart}

HostAddMarker == HostAdd(MonitorHostTexts, MaxRows)

MonitorNext ==
  \/ StartMonitoring
  \/ StopMonitoring
  \/ UserScroll
  \/ ScrollDebounceTimer
  \/ ResetTimer
  \/ IntersectionCallback
  \/ IntersectionTimer
  \/ MutationDebounceTimer
  \/ RestoreTimer
  \/ HostAddMarker
  \/ HostRemoveNode

\* the 1000 ms re-check of the intersection observer is followed in RowSpec
MonitorSpec == Init /\ [][MonitorNext]_vars

\* ------------------------------------------------------ scrolling in detail
\* offsets 30, 50, 80 and 110 px apart
FineScrollPositions == {0, 30, 80, 110}

UserScrollFine == UserScrollTo(FineScrollPositions)

MarkerTexts == {RawStart, RawEnd}

HostAddMarkerElement == HostAdd(MarkerTexts, MaxRows)

\* a started monitor, the host mounting marker elements, the user scrolling
ScrollNext ==
  \/ StartMonitoring
  \/ UserScrollFine
  \/ ScrollDebounceTimer
  \/ ResetTimer
  \/ MutationDebounceTimer
  \/ RestoreTimer
  \/ HostAddMarkerElement
  \/ HostRemoveNode

ScrollSpec == Init /\ [][ScrollNext]_vars

\* the user scrolls in steps of at most the threshold: 20, 30 or 50 px
SmallStepPositions == {0, 30, 50, 80, 100}

UserScrollSmall ==
  \E p \in SmallStepPositions :
    /\ Abs(p - scrollTop) <= ScrollThreshold
    /\ UserScrollTo({p})

SmallScrollNext ==
  \/ StartMonitoring
  \/ UserScrollSmall
  \/ ScrollDebounceTimer
  \/ ResetTimer
  \/ MutationDebounceTimer
  \/ RestoreTimer
  \/ HostAddMarkerElement
  \/ HostRemoveNode

SmallScrollSpec == Init /\ [][SmallScrollNext]_vars

\* the same events with styling switched off from the start
DisabledInit == ConstructedWith([DefaultSettings EXCEPT !.enabled = FALSE]) /\ Settled

DisabledSpec == DisabledInit /\ [][ScrollNext]_vars

\* ------------------------------------------------- the baseline after a scroll
\* the monitor is started before the host has rendered anything, so the start
\* pass finds no range and every deferred restore belongs to a scroll pass
\* (the host's elements show the markers with their angle brackets, for which
\* the mutation filter starts no pass)
StartOnEmptyPage == dom = <<>> /\ StartMonitoring

BaselineNext ==
  \/ StartOnEmptyPage
  \/ UserScroll
  \/ ScrollDebounceTimer
  \/ ResetTimer
  \/ MutationDebounceTimer
  \/ RestoreTimer
  \/ HostAddMarkerElement
  \/ HostRemoveNode

BaselineSpec == Init /\ [][BaselineNext]_vars

\* ------------------------------------------------------- stopping mid-pass
\* a monitor that is started and stopped while the user scrolls, up to the
\* moment the scroll debounce would fire: the only passes are the start pass
\* and those of the mutation debounce, which stopMonitoring cancels, so a
\* restore that runs on a stopped monitor was deferred before the stop
StopNext ==
  \/ StartMonitoring
  \/ StopMonitoring
  \/ UserScroll
  \/ MutationDebounceTimer
  \/ RestoreTimer
  \/ HostAddMarker
  \/ HostRemoveNode

StopSpec == Init /\ [][StopNext]_vars

\* ------------------------------------------------------- the guard released
\* starts, stops, scrolls and mutation batches in any order; the 100 ms timer
\* that follows a triggered re-scan is an anonymous setTimeout that
\* stopMonitoring does not clear, so it fires in the end
GuardNext ==
  \/ StartMonitoring
  \/ StopMonitoring
  \/ UserScroll
  \/ ScrollDebounceTimer
  \/ ResetTimer
  \/ MutationDebounceTimer
  \/ RestoreTimer
  \/ HostAddMarker
  \/ HostRemoveNode

GuardSpec == Init /\ [][GuardNext]_vars /\ WF_vars(ResetTimer)

\* ------------------------------------------------------- rows mounted later
\* the host mounts rows that no pass replaces (plain text, or a start marker
\* that is never closed) and unmounts none; the 1000 ms re-check fires in the end
RowTexts == {PlainX, RawStart}

HostMountRow == HostAdd(RowTexts, MaxRows)

RowNext ==
  \/ StartMonitoring
  \/ HostMountRow
  \/ RecheckTimer
  \/ IntersectionCallback
  \/ IntersectionTimer
  \/ UserScroll
  \/ ScrollDebounceTimer
  \/ ResetTimer

RowSpec == Init /\ [][RowNext]_vars /\ WF_vars(RecheckTimer)

\* ------------------------------------------------------ restores left waiting
\* a frame slower than the scroll debounce leaves a restore waiting while the
\* next pass runs: two restores may wait at once
MaxBacklog == 2

ScrollDebounceBacklog == ScrollDebounceUpTo(MaxBacklog)

FeedbackNext ==
  \/ StartMonitoring
  \/ SettingsUpdated
  \/ UserScroll
  \/ ScrollDebounceBacklog
  \/ ResetTimer
  \/ RestoreTimer
  \/ MutationDebounceTimer
  \/ HostAddMarkerElement
  \/ HostRemoveNode

\* a pending timer fires in the end: the event loop runs every callback it has
\* been handed, while the host and the user owe nothing.  Stated for the 100 ms
\* reset and the mutation debounce; a behaviour with passes without end takes
\* the pass and restore callbacks again and again by itself
FeedbackSpec ==
  /\ Init
  /\ [][FeedbackNext]_vars
  /\ WF_vars(ResetTimer)
  /\ WF_vars(MutationDebounceTimer)

\* ------------------------------------------------------ the mutation debounce
\* a started monitor and a host that mounts and unmounts elements; the debounce
\* timer and the deferred restore fire in the end, the host owes nothing
DebounceNext ==
  \/ StartMonitoring
  \/ HostAddMarker
  \/ HostRemoveNode
  \/ MutationDebounceTimer
  \/ RestoreTimer

DebounceSpec ==
  /\ Init
  /\ [][DebounceNext]_vars
  /\ WF_vars(MutationDebounceTimer)
  /\ WF_vars(RestoreTimer)

\* ------------------------------------------------- the orchestrator's events
\* the fields of the monitor and the events it has left, all untouched
MonitorUntouched ==
  UNCHANGED <<dom, monVars, lastPass, lastRestore, lastAdjust>>

\* the single-page host changes the url
HostNavigate ==
  /\ \E u \in Pages : u # location /\ location' = u
  /\ lastInit' = "none"
  /\ UNCHANGED <<lastUrl, isInitialized, instances, initTimers, initAwaiting>>
  /\ UNCHANGED <<processedBlocks, settings, cfgVars>>
  /\ MonitorUntouched

\* the navigation observer's callback sees a new url: handleNavigationChange
NavigationObserved ==
  /\ location # lastUrl
  /\ lastUrl' = location
  /\ IF isValidPage(location)
       THEN /\ initTimers < MaxInitTimers
            /\ initTimers' = initTimers + 1
            /\ UNCHANGED isInitialized
            /\ MonitorUntouched
     ELSE \* cleanup, then isInitialized = false
          /\ IF instances.monitor
               THEN /\ stopMonitoring
                    /\ NoRecord
                    /\ UNCHANGED <<dom, scrollContainer, ioRecheck, starts, resetTimers,
                                   ioTimers, pendingRestores, scrollVars>>
             ELSE MonitorUntouched
          /\ isInitialized' = FALSE
          /\ UNCHANGED initTimers
  /\ lastInit' = "none"
  /\ UNCHANGED <<location, instances, initAwaiting, processedBlocks, settings, cfgVars>>

\* a setTimeout(initialize, 1000) timer fires: initialize() up to its await
InitializeTimer ==
  /\ initTimers > 0
  /\ initTimers' = initTimers - 1
  /\ IF isInitialized
       THEN /\ lastInit' = "skipped"
            /\ UNCHANGED <<instances, initAwaiting, processedBlocks, settings,
                           detectorSettings, debugMode>>
     ELSE /\ initAwaiting < MaxAwaiting
          /\ initAwaiting' = initAwaiting + 1
          \* new ThinkBlockDetector(), new ThinkBlockStyler()
          /\ instances' = [instances EXCEPT !.detector = TRUE, !.styler = TRUE]
          /\ processedBlocks' = {}
          /\ settings' = DefaultSettings
          /\ detectorSettings' = NullSettings
          /\ debugMode' = FALSE
          /\ lastInit' = "none"
  /\ UNCHANGED <<location, lastUrl, isInitialized, store, storageAwaiting, markerStyle>>
  /\ MonitorUntouched

\* detector.initialize(settings): the object is kept, settings.debugMode || false
\* is copied
DetectorInitialize(s) ==
  /\ detectorSettings' = s
  /\ debugMode' = s.debugMode

\* the store's answer arrives: styler.initialize() ends and initialize() goes on
\* from its await to its end
InitializeResume ==
  /\ initAwaiting > 0
  /\ initAwaiting' = initAwaiting - 1
  /\ settings' = stylerInitialize(settings, Answered(store))
  \* detector.initialize(styler.settings); monitor = new ThinkBlockMonitor(...)
  /\ DetectorInitialize(settings')
  /\ instances' = [instances EXCEPT !.monitor = TRUE]
  /\ IF "initialize" \in ThinkBlockMonitorMethods
       THEN \* monitor.initialize(...); monitor.startMonitoring(); isInitialized = true
            /\ startMonitoring(processedBlocks, settings', FALSE, "none")
            /\ isInitialized' = TRUE
            /\ UNCHANGED <<scrollTimeout, resetTimers, ioTimers, isProcessing, scrollTop>>
     ELSE \* monitor.initialize is not a function: the TypeError is caught
          /\ NoRecord
          /\ UNCHANGED <<dom, processedBlocks, monVars, isInitialized>>
  /\ lastInit' = "returned"
  /\ UNCHANGED <<location, lastUrl, initTimers, store, storageAwaiting, markerStyle>>

\* the store is written (by the popup, or by the install hook) and the
\* storage.onChanged listener runs: with the three objects in place it calls
\* styler.initialize(), which waits for the store's answer
MaxStorageAwaiting == 1

StorageChanged ==
  /\ \E written \in Stores : written # store /\ store' = written
  /\ IF instances.styler /\ instances.detector /\ instances.monitor
       THEN /\ storageAwaiting < MaxStorageAwaiting
            /\ storageAwaiting' = storageAwaiting + 1
     ELSE UNCHANGED storageAwaiting
  /\ lastInit' = "none"
  /\ UNCHANGED <<location, lastUrl, isInitialized, instances, initTimers, initAwaiting,
                 detectorSettings, debugMode, markerStyle>>
  /\ UNCHANGED <<processedBlocks, settings>>
  /\ NoRecord
  /\ UNCHANGED <<dom, monVars>>

\* the store's answer arrives: styler.initialize() ends and the listener's
\* then-callback runs
StorageResume ==
  /\ storageAwaiting > 0
  /\ storageAwaiting' = storageAwaiting - 1
  /\ settings' = stylerInitialize(settings, Answered(store))
  /\ DetectorInitialize(settings')
  \* monitor.initialize(styler.settings) is not a function: the TypeError ends
  \* the callback before updateExistingContainers, so no container is restyled
  /\ lastInit' = "none"
  /\ UNCHANGED <<location, lastUrl, isInitialized, instances, initTimers, initAwaiting,
                 store, markerStyle>>
  /\ UNCHANGED processedBlocks
  /\ NoRecord
  /\ UNCHANGED <<dom, monVars>>

\* a SETTINGS_UPDATED message carrying enabled or debugMode
SettingsMessage == SettingsUpdatedWith(EnabledMessages \cup DebugMessages)

\* the content script has loaded on some page: handleNavigationChange has run
OrchInit ==
  /\ Constructed
  /\ location \in Pages
  /\ lastUrl = location
  /\ isInitialized = FALSE
  /\ instances = [detector |-> FALSE, styler |-> FALSE, monitor |-> FALSE]
  /\ initTimers = (IF isValidPage(location) THEN 1 ELSE 0)
  /\ initAwaiting = 0
  /\ lastInit = "none"
  /\ store \in {EmptyStore, InstalledStore}
  /\ storageAwaiting = 0
  /\ markerStyle = NoStyle

OrchNext ==
  \/ HostNavigate
  \/ NavigationObserved
  \/ InitializeTimer
  \/ InitializeResume
  \/ SettingsMessage
  \/ StorageChanged
  \/ StorageResume

OrchSpec == OrchInit /\ [][OrchNext]_vars

\* ------------------------------------------------------- reading the store
\* styler.initialize() is called and ends, whatever the store answers
StylerInitialize ==
  /\ instances.styler
  /\ \E answer \in {Answered(store), StoreUnavailable, ReadRejected} :
       /\ settings' = stylerInitialize(settings, answer)
       /\ lastInit' = answer.kind
  /\ UNCHANGED <<location, lastUrl, isInitialized, instances, initTimers, initAwaiting,
                 cfgVars>>
  /\ UNCHANGED processedBlocks
  /\ NoRecord
  /\ UNCHANGED <<dom, monVars>>

\* a SETTINGS_UPDATED message carrying enabled, debugMode or a theme
AnyMessage == SettingsUpdatedWith(EnabledMessages \cup DebugMessages \cup ThemeMessages)

ReadNext ==
  \/ AnyMessage
  \/ StorageChanged
  \/ StorageResume
  \/ StylerInitialize

ReadSpec == Init /\ [][ReadNext]_vars

\* ---------------------------------------------------------------- debug mode
\* passes over marker elements while the stored settings, debugMode among
\* them, change
HostAddMarkerRow == HostAdd(MarkerTexts, MaxDom)

DebugNext ==
  \/ HostAddMarkerRow
  \/ HostRemoveNode
  \/ ProcessCurrentContent
  \/ StorageChanged
  \/ StorageResume

DebugSpec == Init /\ [][DebugNext]_vars

\* ------------------------------------------------------------ marker colours
\* the channel values the custom colours are made of
ChannelValues == {0, 1, 127, 128, 129, 254, 255}


\* a styler whose settings hold some theme and some marker colour
StyleInit ==
  /\ \E t \in Themes, r \in ChannelValues, g \in ChannelValues, b \in ChannelValues :
       ConstructedWith([DefaultSettings EXCEPT !.theme = t,
                                               !.markerColor = HexColor(r, g, b)])
  /\ Settled

\* applyMarkerStyles is called on a marker chip
ApplyMarkerStyles ==
  /\ instances.styler
  /\ markerStyle' = applyMarkerStyles(settings)
  /\ NoRecord
  /\ UNCHANGED <<detVars, monVars>>
  /\ UNCHANGED <<location, lastUrl, isInitialized, instances, initTimers, initAwaiting,
                 lastInit, store, detectorSettings, debugMode, storageAwaiting>>

\* a SETTINGS_UPDATED message carrying a theme
ThemeMessage == SettingsUpdatedWith(ThemeMessages)

StyleNext == ApplyMarkerStyles \/ ThemeMessage

StyleSpec == StyleInit /\ [][StyleNext]_vars

\* -------------------------------------------------- themes over containers
\* containers are built from marker rows while SETTINGS_UPDATED messages change
\* the theme
ThemeNext ==
  \/ HostAddMarkerRow
  \/ HostRemoveNode
  \/ ProcessCurrentContent
  \/ ThemeMessage

ThemeSpec == Init /\ [][ThemeNext]_vars

\* ------------------------------------------------------ the anchor adjustment
AdjustSpec == Init /\ [][CalculateHeightAdjustment]_vars

\* ------------------------------------------------- containers that fail to build
FaultNext ==
  \/ HostAddMarkerRow
  \/ HostRemoveNode
  \/ ProcessWithFaults

FaultSpec == Init /\ [][FaultNext]_vars

\* ------------------------------------------------------------------ claims
IsStartMarker(node) == node.kind = "div" /\ Trim(node.text) = RawStart
IsEndMarker(node) == node.kind = "div" /\ Trim(node.text) = RawEnd

StartMarkers(d) == {i \in 1..Len(d) : IsStartMarker(d[i])}
EndMarkers(d) == {i \in 1..Len(d) : IsEndMarker(d[i])}

\* exactly one start marker, followed later by exactly one end marker
OnePair(d) ==
  /\ Cardinality(StartMarkers(d)) = 1
  /\ Cardinality(EndMarkers(d)) = 1
  /\ \A s \in StartMarkers(d), e \in EndMarkers(d) : s < e

\* the start markers with no end marker after them
Unterminated(d) == {s \in StartMarkers(d) : \A e \in EndMarkers(d) : e < s}

RECURSIVE CandidatesBetween(_, _, _)
CandidatesBetween(d, i, e) ==
  IF i > e THEN <<>>
  ELSE (IF d[i].kind = "div" THEN <<i>> ELSE <<>>) \o CandidatesBetween(d, i + 1, e)

\* the one range the pair delimits: the markers and the candidates between them
PairRange(d) ==
  LET s == CHOOSE i \in StartMarkers(d) : TRUE
      e == CHOOSE i \in EndMarkers(d) : TRUE
  IN CandidatesBetween(d, s, e)

PassRan == lastPass'.op = "pass"

\* C2: a scan of a DOM that holds exactly one start marker followed later by
\* exactly one end marker, with an empty processed set, returns exactly one
\* range: the start marker, the candidates between the markers and the end
\* marker, in document order.
C2_ScanOnePair ==
  [][(PassRan /\ processedBlocks = {} /\ OnePair(dom))
       => lastPass'.ranges = <<PairRange(dom)>>]_vars

\* a pass without styling has just scanned, from an empty processed set, a DOM
\* with one pair and interior content
C2_Witness ==
  /\ lastPass.op = "pass"
  /\ ~lastPass.enabled
  /\ lastPass.scanned = {} /\ lastPass.evicted = {}
  /\ OnePair(dom)
  /\ Len(PairRange(dom)) >= 3
  /\ Len(dom) > Len(PairRange(dom))

RECURSIVE IsSubseq(_, _)
IsSubseq(a, b) ==
  IF a = <<>> THEN TRUE
  ELSE IF b = <<>> THEN FALSE
  ELSE IF Head(a) = Head(b) THEN IsSubseq(Tail(a), Tail(b))
  ELSE IsSubseq(a, Tail(b))

IsLine(c) == c.kind = "line"
IsChip(c) == c.kind = "chip"
Lines(content) == SelectSeq(content, IsLine)
Chips(content) == SelectSeq(content, IsChip)
LineTexts(content) == [j \in 1..Len(Lines(content)) |-> Lines(content)[j].text]

\* the texts of the elements of r between its markers
InteriorTexts(d, r) == [j \in 1..(Len(r) - 2) |-> d[r[j + 1]].text]

RECURSIVE ShapeFrom(_, _, _)
\* what wrapping ranges leaves of d, from position i on: a new container where
\* a range started, nothing where a range element was, the old node elsewhere
ShapeFrom(d, ranges, i) ==
  IF i > Len(d) THEN <<>>
  ELSE (IF \E k \in 1..Len(ranges) : startElement(ranges[k]) = i
          THEN <<[range |-> CHOOSE k \in 1..Len(ranges) : startElement(ranges[k]) = i,
                  old |-> 0]>>
        ELSE IF i \in PositionsOf(ranges) THEN <<>>
        ELSE <<[range |-> 0, old |-> i]>>) \o ShapeFrom(d, ranges, i + 1)

WrappedInPlace(d, after, ranges) ==
  LET shape == ShapeFrom(d, ranges, 1)
  IN /\ Len(after) = Len(shape)
     /\ \A j \in 1..Len(shape) :
          IF shape[j].range > 0
            THEN /\ after[j].kind = "box"
                 /\ after[j].id \notin BoxIds(d)
                 /\ IsSubseq(InteriorTexts(d, ranges[shape[j].range]),
                             LineTexts(after[j].content))
          ELSE after[j] = d[shape[j].old]

\* C3: with styling enabled, a pass leaves none of a converted range's elements
\* in the DOM, exactly one new container where the range's first element was,
\* every other node where it was, and the container's content lines in the
\* order of the range's elements.
C3_WrapInPlace ==
  [][(PassRan /\ lastPass'.enabled /\ Len(lastPass'.ranges) > 0)
       => WrappedInPlace(dom, dom', lastPass'.ranges)]_vars

\* a pass with styling has converted a range with two interior elements
C3_Witness ==
  /\ lastPass.op = "pass"
  /\ lastPass.enabled
  /\ \E k \in 1..Len(lastPass.ranges) : Len(lastPass.ranges[k]) = 4

\* C4: with styling enabled, the container list wrap returns holds one handle
\* for every range converted, each the container inserted for that range.
C4_ReturnsHandles ==
  (lastPass.op = "pass" /\ lastPass.enabled)
    => /\ lastPass.containers = lastPass.inserted
       /\ Len(lastPass.containers) = Len(lastPass.ranges)

BoxWithId(d, id) == d[CHOOSE i \in 1..Len(d) : d[i].kind = "box" /\ d[i].id = id]

\* C6: the container built for a range that is a start marker immediately
\* followed by an end marker holds exactly two marker chips and no content line.
C6_EmptyRangeTwoChips ==
  (lastPass.op = "pass" /\ lastPass.enabled)
    => \A k \in 1..Len(lastPass.ranges) :
         Len(lastPass.ranges[k]) = 2
           => LET content == BoxWithId(dom, lastPass.inserted[k]).content
              IN Len(Chips(content)) = 2 /\ Len(Lines(content)) = 0

\* C7: when a scan returned ranges, each was marked processed and the DOM was
\* left as it was, the next scan returns no range.
C7_SecondScanEmpty ==
  [][(lastPass.op = "pass" /\ Len(lastPass.ranges) > 0 /\ dom' = dom /\ PassRan)
       => Len(lastPass'.ranges) = 0]_vars

KeysStyled(d) == {d[i].for : i \in {j \in 1..Len(d) : d[j].kind = "box"}}

\* the well-formed ranges of d: what the walk of processElements collects
MarkedRanges(d) == SeqRange(WalkElements(d, querySelectorAll(d), 1, NoRange, <<>>))

\* C8: when a range's fingerprint is in the processed set, the container built
\* for it is gone and its marker elements are in the DOM, the next scan returns
\* the range and drops the fingerprint from the processed set.
C8_RemovedContainerRescanned ==
  [][PassRan
       => \A r \in MarkedRanges(dom) :
            (generateRangeKey(dom, r) \in processedBlocks
               /\ generateRangeKey(dom, r) \notin KeysStyled(dom))
              => /\ r \in SeqRange(lastPass'.ranges)
                 /\ generateRangeKey(dom, r) \notin lastPass'.scanned]_vars

\* C5: when the elements of a pass's range measured 120px in total before the
\* wrap and its single new container measures 80px at the deferred step, the
\* step computes a height delta of -40 and leaves the scroll offset at the
\* captured scrollTop reduced by 28 to 40 px with a live anchor (a factor of
\* 0.7 to 1.0) and by 32 px without one (a factor of 0.8).
C5_HeightDeltaApplied ==
  (/\ lastRestore.op = "restore"
   /\ lastRestore.old = 120
   /\ Len(lastRestore.inserted) = 1
   /\ lastRestore.new = 80
   /\ lastRestore.anchorTop >= 40)
    => /\ lastRestore.delta = -40
       /\ lastRestore.anchor = "alive"
            => (lastRestore.anchorTop - lastRestore.after) \in 28..40
       /\ lastRestore.anchor # "alive"
            => lastRestore.anchorTop - lastRestore.after = 32

\* C9: no processing pass, whatever triggers it, begins its scan while the
\* deferred height measurement and scroll correction of an earlier pass is
\* still to run.
C9_PassesNeverOverlap == [][PassRan => pendingRestores = <<>>]_vars

\* C10: once stopMonitoring has returned, and until startMonitoring is called
\* again, no event and no timer left from before the stop starts a processing
\* pass.
C10_StopStopsPasses ==
  [][(monitoring = "idle" /\ starts > 0 /\ monitoring' = "idle") => ~PassRan]_vars

\* C1: when an initialize() call that got past its isInitialized guard returns
\* on a valid chat page, the monitor has been started and isInitialized is true.
C1_InitializeStartsMonitor ==
  (lastInit = "returned" /\ isValidPage(location))
    => (isInitialized /\ monitoring = "observing" /\ observer)

\* the 150 ms scroll debounce timer has just fired
ScrollDebounceFired == scrollTimeout /\ ~scrollTimeout' /\ monitoring' = monitoring

RangeKeys(d, ranges) == {generateRangeKey(d, ranges[k]) : k \in 1..Len(ranges)}

\* C11: when the scroll debounce timer fires, a pass runs if and only if the
\* scroll offset is more than 50px from the recorded baseline; the pass then
\* scans from an empty processed set: it returns every range of the DOM and
\* leaves exactly those ranges' fingerprints in the set.
C11_ScrollRescan ==
  [][ScrollDebounceFired
       => /\ PassRan <=> Abs(scrollTop - lastScrollPosition) > 50
          /\ PassRan => /\ lastPass'.ranges = scanDocument(dom, {}, FALSE).ranges
                        /\ processedBlocks' = RangeKeys(dom, lastPass'.ranges)]_vars

\* a scroll of 80px has run a pass that found a range
C11_Witness ==
  /\ lastPass.op = "pass"
  /\ resetTimers > 0
  /\ Abs(scrollTop - lastScrollPosition) = 80
  /\ Len(lastPass.ranges) > 0

\* a scroll of 30px has let the debounce timer fire without a pass
C11_WitnessSmall ==
  /\ lastPass.op = "none"
  /\ ~scrollTimeout
  /\ scrollListeners > 0
  /\ Abs(scrollTop - lastScrollPosition) = 30
  /\ resetTimers = 0

\* a step of the host page or the user: the DOM is mutated, the conversation
\* is scrolled, a setting is changed, monitoring is started
EnvironmentStep ==
  \/ HostAddMarkerElement
  \/ HostRemoveNode
  \/ UserScroll
  \/ SettingsUpdated
  \/ StartMonitoring

\* C12: the monitor never feeds itself forever: once the host stops mutating
\* the DOM and the user stops scrolling, only finitely many further passes
\* run, so either passes stop for good or the environment keeps stepping.
C12_NoSelfFeeding == <>[][~PassRan]_vars \/ []<><<EnvironmentStep>>_vars

\* C13: with enabled = false, wrapThinkingBlocks changes nothing in the DOM,
\* whatever ranges it is given, and returns an empty container list.
C13_DisabledWrapsNothing ==
  [][PassRan /\ ~settings.enabled
       => /\ dom' = dom
          /\ lastPass'.containers = <<>>
          /\ lastPass'.inserted = <<>>]_vars

\* a pass with styling disabled was handed at least one range
C13_Witness ==
  /\ lastPass.op = "pass"
  /\ ~lastPass.enabled
  /\ ~settings.enabled
  /\ Len(lastPass.ranges) > 0

\* the fingerprint of a range with a start element and no end element
OpenRangeKey(d, s) == outerHTML(d[s]) \o <<"-">>

\* C14: a start marker with no end marker after it yields no range: no range
\* a scan returns holds it, and its fingerprint is not added to the processed set.
C14_UnterminatedDiscarded ==
  [][PassRan
       => \A s \in Unterminated(dom) :
            /\ \A k \in 1..Len(lastPass'.ranges) : s \notin SeqRange(lastPass'.ranges[k])
            /\ OpenRangeKey(dom, s) \notin processedBlocks']_vars

\* a pass has returned a range from a DOM that also holds a start marker with
\* no end marker after it
C14_Witness ==
  /\ lastPass.op = "pass"
  /\ ~lastPass.enabled
  /\ Len(lastPass.ranges) > 0
  /\ Unterminated(dom) # {}

\* the step is the message listener handling a SETTINGS_UPDATED message
MessageHandled ==
  /\ settings' # settings
  /\ storageAwaiting' = storageAwaiting
  /\ initAwaiting' = initAwaiting
  /\ initTimers' = initTimers

\* the step is the storage listener's callback, run after styler.initialize()
StorageHandled == storageAwaiting' < storageAwaiting

\* C15: after either kind of change notification has been handled (a storage
\* change, or a SETTINGS_UPDATED message), the styler's settings hold the new
\* values and the detector's stored configuration and debug flag are those of
\* the styler's settings.
C15_ChangeReinitializesAll ==
  [][(MessageHandled \/ StorageHandled)
       => /\ StorageHandled => \A k \in DOMAIN store : settings'[k] = store[k]
          /\ detectorSettings' = settings'
          /\ debugMode' = settings'.debugMode]_vars

\* the step is initialize() going on from await styler.initialize()
StylerInitialized == initAwaiting' < initAwaiting

\* C16: after a fresh install, with the store as the install hook seeded it,
\* the maximum height the styler applies to a container after its initialize()
\* is the documented default of 200px.
C16_FreshInstallDefaultHeight ==
  [][(StylerInitialized /\ store = InstalledStore)
       => applyContainerStyles(NoInlineStyle, settings').maxHeight = <<200, "px">>]_vars

\* the step is a call of applyMarkerStyles
MarkerStyled == markerStyle' # markerStyle

\* C17: for a colour #rrggbb, getContrastColor returns #000000 when
\* (299*r + 587*g + 114*b)/1000 is greater than 128 and #ffffff otherwise;
\* under the custom theme a marker chip gets markerColor as background and
\* getContrastColor(markerColor) as text colour.
C17_ContrastColor ==
  [][(MarkerStyled /\ settings.theme = "custom")
       => /\ markerStyle'.backgroundColor = settings.markerColor
          /\ \A r \in ChannelValues, g \in ChannelValues, b \in ChannelValues :
               settings.markerColor = HexColor(r, g, b)
                 => markerStyle'.color = (IF 299 * r + 587 * g + 114 * b > 128000
                                            THEN HexColor(0, 0, 0)
                                          ELSE HexColor(255, 255, 255))]_vars

\* under the custom theme a chip of markerColor #000000 has white text on black
C17_Witness ==
  /\ settings.theme = "custom"
  /\ settings.markerColor = <<"#", "0", "0", "0", "0", "0", "0">>
  /\ markerStyle.backgroundColor = <<"#", "0", "0", "0", "0", "0", "0">>
  /\ markerStyle.color = <<"#", "f", "f", "f", "f", "f", "f">>

\* a chip of markerColor #fefefe has black text
C17_WitnessLight ==
  /\ settings.theme = "custom"
  /\ markerStyle.backgroundColor = <<"#", "f", "e", "f", "e", "f", "e">>
  /\ markerStyle.color = <<"#", "0", "0", "0", "0", "0", "0">>

\* a chip of markerColor #808080, of brightness 128 exactly, has white text
C17_WitnessBoundary ==
  /\ settings.theme = "custom"
  /\ markerStyle.backgroundColor = <<"#", "8", "0", "8", "0", "8", "0">>
  /\ markerStyle.color = <<"#", "f", "f", "f", "f", "f", "f">>

\* C18: debug mode is purely observational: for the same DOM and the same
\* processed set, the scan returns the same ranges and leaves the same
\* processed set whether the debug flag is on or off, and the pass it belongs
\* to leaves the DOM the pass without the flag leaves.
C18_DebugObservational ==
  [][PassRan
       => LET other == scanDocument(dom, processedBlocks, ~debugMode)
          IN /\ lastPass'.ranges = other.ranges
             /\ lastPass'.scanned = other.pb
             /\ processedBlocks' = MarkAll(dom, other.ranges, 1, other.pb)
             /\ ~settings.enabled => dom' = dom]_vars

\* a pass in debug mode has logged markers and returned no range, the one
\* range of the DOM being processed
C18_Witness ==
  /\ lastPass.op = "pass"
  /\ debugMode
  /\ lastPass.console.startMarkers > 0
  /\ lastPass.ranges = <<>>
  /\ lastPass.scanned # {}
  /\ StartMarkers(dom) # {}

\* a pass in debug mode has logged markers and returned a range
C18_WitnessRange ==
  /\ lastPass.op = "pass"
  /\ debugMode
  /\ lastPass.console.startMarkers > 0
  /\ Len(lastPass.ranges) > 0

\* the pass of the step was started by the mutation debounce timer, which is
\* no longer pending once it has fired
MutationPass ==
  /\ PassRan
  /\ processingTimeout # "none"
  /\ starts' = starts
  /\ ioTimers' = ioTimers
  /\ scrollTimeout' = scrollTimeout

\* C19: the mutation records of a pass's own wrap are ignored by the mutation
\* handler, whatever triggered the pass: once they are delivered no debounce
\* timer has been scheduled for them, so the only timer pending is the one
\* that was pending before the pass, if it has not just fired.
C19_OwnRecordsIgnored ==
  [][(PassRan /\ observer /\ dom' # dom)
       => processingTimeout' = (IF MutationPass THEN "none" ELSE processingTimeout)]_vars

\* the step is the mutation debounce timer firing: it runs a pass that no
\* other timer or call started, or it only drops its batch
MutationDebounceFired ==
  /\ processingTimeout # "none"
  /\ monitoring' = monitoring
  /\ MutationPass \/ (~PassRan /\ processingTimeout' = "none")

\* C20: when the mutation debounce expires, the batch starts a pass if and
\* only if it holds an added node whose text contains the start or the end
\* marker, in either of the encodings the detector matches; any other batch
\* starts no pass and changes neither the DOM nor the processed set.
C20_RelevantBatchesOnly ==
  [][MutationDebounceFired
       => /\ PassRan <=> processingTimeout \in {"relevant", "raw"}
          /\ ~PassRan => dom' = dom /\ processedBlocks' = processedBlocks]_vars

\* the node processElements takes for a start or an end marker, by either test
DetectorMarker(node) ==
  /\ node.kind = "div"
  /\ \/ IsStartMarkerText(node) \/ IsStartMarkerHTML(node)
     \/ IsEndMarkerText(node) \/ IsEndMarkerHTML(node)

\* the step is the host mounting one element, at position i, while the
\* observer is attached and no pass is in flight
HostMountedAt(i) ==
  /\ lastPass'.op = "none" /\ lastRestore'.op = "none"
  /\ Len(dom') = Len(dom) + 1
  /\ dom' = InsertAt(dom, i, dom'[i])
  /\ observer /\ ~isProcessing

\* C21: whenever the host adds an element that the detector's scan takes for a
\* start or an end marker, the monitor's relevance filter reports the batch
\* that adds it as relevant, so the debounce timer it leaves starts a pass.
C21_FilterAgreesWithDetector ==
  [][\A i \in 1..Len(dom') :
       (HostMountedAt(i) /\ DetectorMarker(dom'[i]))
         => hasRelevantChanges(processingTimeout')]_vars

\* the debounce timer holds a batch the relevance filter accepts: the batch was
\* delivered while no pass was in flight
RelevantBatchHeld == processingTimeout = "relevant"

\* C22: debouncing loses no relevant change: once a batch with marker text has
\* been delivered while no pass is in flight, a processing pass runs in the
\* end, whatever batches without marker text arrive before the timer fires.
C22_RelevantChangeNotLost == RelevantBatchHeld ~> (lastPass.op = "pass")

\* the only way the batch is lost: a later batch took its timer
RelevantChangeLostOnlyByReplacement ==
  RelevantBatchHeld ~> (lastPass.op = "pass" \/ processingTimeout \in {"raw", "irrelevant"})

\* C23: processed-set invariant: once a pass has completed its scan (and, with
\* styling enabled, its wrap and its marking), every fingerprint still in the
\* processed set has a styled container built for it present in the live DOM,
\* whatever scans, wraps, markings and host removals came before.
C23_ProcessedKeysHaveContainer ==
  (lastPass.op = "pass" /\ lastPass.enabled) => processedBlocks \subseteq KeysStyled(dom)

\* the step is the 100 ms timer of a significant scroll assigning the baseline
BaselineAssigned == resetTimers' < resetTimers

\* C24: after a scroll-triggered pass the baseline lastScrollPosition is
\* assigned only once the pass has completed, its deferred scroll correction
\* included: no restore of a scroll pass is still waiting when it is assigned.
C24_BaselineAfterCorrection ==
  [][BaselineAssigned => pendingRestores = <<>>]_vars

\* the step is the deferred restore of a pass, run after stopMonitoring
RestoreAfterStop == lastRestore'.op = "restore" /\ monitoring = "idle"

\* C25: when stopMonitoring is called after a pass has wrapped its ranges and
\* before its deferred height measurement and scroll correction run, the
\* deferred step does not change the scroll offset.
C25_RestoreAfterStopNoOp ==
  [][RestoreAfterStop => scrollTop' = scrollTop]_vars

\* a row mounted since the live observer last subscribed the rows is in the list
RowUnwatched == monitoring = "observing" /\ ioUnwatched

\* C26: while the monitor is observing, every row the host mounts, at whatever
\* time after the start, is subscribed to the intersection observer in the end.
C26_MountedRowsObserved == RowUnwatched ~> ~ioUnwatched

\* a row mounted while the re-check is still pending is subscribed by it
RowsBeforeRecheckObserved ==
  (RowUnwatched /\ intersectionObserver \in ioRecheck) ~> ~ioUnwatched

\* applying the styles for s again changes no container of d
RestyledFor(d, s) == updateExistingContainers(d, s) = d

\* the handles of the containers in d
ContainerIds(d) == {d[i].id : i \in {j \in 1..Len(d) : d[j].kind = "box"}}

\* C27: after the storage listener has handled a change of the settings store,
\* every container in the DOM and its marker chips carry the style the new
\* settings give, the processed set is as it was (no rescan) and the containers
\* are the ones there were (none recreated).
C27_StorageChangeRestyles ==
  [][StorageHandled => /\ RestyledFor(dom', settings')
                       /\ processedBlocks' = processedBlocks
                       /\ ContainerIds(dom') = ContainerIds(dom)]_vars

\* every container of d has the style wrapSingleRange gives a new one under s
StyledAsNew(d, s) ==
  \A i \in 1..Len(d) : d[i].kind = "box" => d[i].style = createdStyle(s)

\* C28: after updateExistingContainers has run for a SETTINGS_UPDATED message,
\* every existing container has exactly the style a newly created container
\* gets under the current settings, whatever the previous and the new theme.
C28_RefreshEqualsNew == [][MessageHandled => StyledAsNew(dom', settings')]_vars

\* the default and the dark theme assign every property a theme assigns
RefreshToFullThemeEqualsNew ==
  [][(MessageHandled /\ settings'.theme \in {"default", "dark"})
       => StyledAsNew(dom', settings')]_vars

\* the step is a pass whose scan returned a range / returned none
PassFoundRanges == PassRan /\ Len(lastPass'.ranges) > 0
PassFoundNone == PassRan /\ Len(lastPass'.ranges) = 0

\* the step is the deferred part of a pass
RestoreRan == lastRestore'.op = "restore"

\* the restore the step has left waiting
DeferredJob == pendingRestores'[Len(pendingRestores')]

C29_WitnessNone ==
  /\ lastPass.op = "pass"
  /\ Len(lastPass.ranges) = 0
  /\ dom # <<>>

\* a <= b for fractions with positive denominators
FracLeq(a, b) == a.num * b.den <= b.num * a.den

\* the scroll ratio of a call: scrollTop over the scrollable extent (at least
\* 1), and at most 1
ScrollRatio(call) ==
  LET extent == IF call.extent < 1 THEN 1 ELSE call.extent
  IN IF call.scrollTop >= extent THEN Frac(1, 1) ELSE Frac(call.scrollTop, extent)

\* what a call returned, divided by the height difference it was given
AdjustmentFactor(call) ==
  IF call.totalHeightDifference > 0
    THEN Frac(call.result.num, call.result.den * call.totalHeightDifference)
  ELSE Frac(-call.result.num, call.result.den * (-call.totalHeightDifference))

\* a call with a height difference of at least 5px either way
Adjusting(call) ==
  /\ call.op = "adjust"
  /\ call.totalHeightDifference >= 5 \/ call.totalHeightDifference <= -5

\* C30: calculateHeightAdjustmentForAnchor returns 0 for a height difference
\* under 5px either way; otherwise it returns the difference times a factor
\* from 0.7 to 1.0, whatever the captured scrollTop (0 or more) and the scroll
\* height, and of two calls the one with the larger scroll ratio never has the
\* smaller factor.
C30_AdjustmentFactor ==
  [][/\ (lastAdjust'.op = "adjust" /\ ~Adjusting(lastAdjust'))
          => lastAdjust'.result.num = 0
     /\ Adjusting(lastAdjust')
          => /\ FracLeq(Frac(7, 10), AdjustmentFactor(lastAdjust'))
             /\ FracLeq(AdjustmentFactor(lastAdjust'), Frac(1, 1))
     /\ (/\ Adjusting(lastAdjust)
         /\ Adjusting(lastAdjust')
         /\ FracLeq(ScrollRatio(lastAdjust), ScrollRatio(lastAdjust')))
          => FracLeq(AdjustmentFactor(lastAdjust), AdjustmentFactor(lastAdjust'))]_vars

\* a difference of -40px at scrollTop 25 of 100 gave -31px (a factor of 0.775)
C30_Witness ==
  /\ lastAdjust.op = "adjust"
  /\ lastAdjust.totalHeightDifference = -40
  /\ lastAdjust.scrollTop = 25
  /\ lastAdjust.extent = 100
  /\ lastAdjust.result.num = -31 * lastAdjust.result.den

\* a difference of 40px at scrollTop 250, past the extent of 100, gave 40px
C30_WitnessCapped ==
  /\ lastAdjust.op = "adjust"
  /\ lastAdjust.totalHeightDifference = 40
  /\ lastAdjust.scrollTop = 250
  /\ lastAdjust.extent = 100
  /\ lastAdjust.result.num = 40 * lastAdjust.result.den

\* the range r of d runs from a start marker to the first end marker after it
\* and holds every candidate between the two, start markers among them
FirstStartToFirstEnd(d, r) ==
  /\ IsStartMarker(d[startElement(r)])
  /\ IsEndMarker(d[endElement(r)])
  /\ \A i \in 2..(Len(r) - 1) : ~IsEndMarker(d[r[i]])
  /\ r = CandidatesBetween(d, startElement(r), endElement(r))

\* C31: the ranges a scan returns each run from a start marker to the first end
\* marker after it, with every candidate between them (a start marker met on the
\* way is interior content and opens no range of its own), they are pairwise
\* disjoint, and there are no more of them than start markers and no more than
\* end markers in the DOM; an end marker met while no range is open is in none.
C31_OneRangeOpen ==
  [][PassRan
       => LET ranges == lastPass'.ranges
          IN /\ \A k \in 1..Len(ranges) : FirstStartToFirstEnd(dom, ranges[k])
             /\ \A j, k \in 1..Len(ranges) :
                  j # k => SeqRange(ranges[j]) \cap SeqRange(ranges[k]) = {}
             /\ Len(ranges) <= Cardinality(StartMarkers(dom))
             /\ Len(ranges) <= Cardinality(EndMarkers(dom))
             \* the first start wins: with nothing marked processed, no start
             \* marker that has an end marker after it is left out
             /\ processedBlocks = {}
                  => \A s \in StartMarkers(dom) \ Unterminated(dom) :
                       \E k \in 1..Len(ranges) : s \in SeqRange(ranges[k])]_vars

\* a pass without styling has returned one range with a start marker inside it
\* from a DOM that also holds an end marker outside every range
C31_Witness ==
  /\ lastPass.op = "pass"
  /\ ~lastPass.enabled
  /\ lastPass.scanned = {} /\ lastPass.evicted = {}
  /\ Len(lastPass.ranges) = 1
  /\ \E i \in 2..(Len(lastPass.ranges[1]) - 1) : IsStartMarker(dom[lastPass.ranges[1][i]])
  /\ \E e \in EndMarkers(dom) : e \notin SeqRange(lastPass.ranges[1])

\* the elements the ranges numbered in ks hold between them
ElementsOf(ranges, ks) == UNION {SeqRange(ranges[k]) : k \in ks}

\* C32: when building the container throws for some ranges of a batch, the
\* wrap converts every other range of the batch (one container each, standing
\* for the range's elements) and returns: the pass goes on to mark every range
\* processed.
C32_FailureIsolated ==
  [][(PassRan /\ lastPass'.enabled)
       => LET ranges == lastPass'.ranges
              built == (1..Len(ranges)) \ lastPass'.failed
          IN /\ Len(lastPass'.inserted) = Cardinality(built)
             /\ SeqRange(lastPass'.inserted) \subseteq BoxIds(dom')
             /\ SeqRange(lastPass'.inserted) \cap BoxIds(dom) = {}
             /\ Len(dom') = Len(dom) - Cardinality(ElementsOf(ranges, built))
                              + Cardinality(built)
             /\ RangeKeys(dom, ranges) \subseteq processedBlocks']_vars

\* a pass found two ranges, the first one's container failed to build and the
\* second one was converted
C32_Witness ==
  /\ lastPass.op = "pass"
  /\ lastPass.enabled
  /\ Len(lastPass.ranges) = 2
  /\ lastPass.failed = {1}
  /\ Len(lastPass.inserted) = 1

\* the step is a call of styler.initialize() that has returned
InitializeReturned == lastInit' \in {"stored", "unavailable", "rejected"}

\* C33: a styler.initialize() whose read fails, or that finds no store, leaves
\* the settings as they were; one whose read succeeds gives every stored key
\* the stored value and leaves every other key as it was.  In each case the
\* call returns.
C33_InitializeKeepsOrMerges ==
  [][StylerInitialize
       => /\ InitializeReturned
          /\ lastInit' \in {"unavailable", "rejected"} => settings' = settings
          /\ lastInit' = "stored"
               => /\ DOMAIN settings' = DOMAIN settings
                  /\ \A k \in DOMAIN settings :
                       settings'[k] = IF k \in DOMAIN store THEN store[k] ELSE settings[k]]_vars

\* a failed read has left settings that differ from the constructor's, and a
\* store that holds other values, alone
C33_Witness ==
  /\ lastInit = "rejected"
  /\ settings.theme = "dark"
  /\ ~settings.enabled
  /\ store = InstalledStore

\* a successful read has overridden the theme and kept debugMode, a key the
\* store does not hold
C33_WitnessMerged ==
  /\ lastInit = "stored"
  /\ settings.debugMode
  /\ "debugMode" \notin DOMAIN store
  /\ settings.theme = "default"

\* C34: no scan omits a well-formed range whose marker elements are in the
\* DOM: such a range has not been converted (a conversion takes its elements
\* out of the DOM), whatever fingerprints the processed set holds and wherever
\* the host has put the range.
C34_DedupHidesNothing ==
  [][PassRan => MarkedRanges(dom) \subseteq SeqRange(lastPass'.ranges)]_vars

\* C35: with enabled = false no step of the extension assigns the scroll
\* offset: the deferred step of a pass leaves scrollTop as it finds it, whatever
\* the user has scrolled since the pass.
C35_DisabledNeverScrolls ==
  [][(~settings.enabled /\ RestoreRan) => scrollTop' = scrollTop]_vars

\* C36: whenever isProcessing is true it is false again later, whatever
\* mutation batches, scroll events, debounce timers and stopMonitoring calls
\* come in between.
C36_GuardReleased == isProcessing ~> ~isProcessing

\* whenever isProcessing is true, the timer that resets it is pending
GuardHasResetPending == isProcessing => resetTimers > 0

\* the monitor was stopped while isProcessing is true
C36_Witness == isProcessing /\ monitoring = "idle" /\ resetTimers > 0

\* C37: at every moment at most one mutation observer, one intersection
\* observer and one scroll listener of the monitor are active, and none of
\* them is active while the monitor is stopped.
C37_OneOfEachActive ==
  /\ scrollListeners <= 1
  /\ Cardinality(ioObserving) <= 1
  /\ monitoring = "idle" => /\ ~observer
                            /\ ioObserving = {}
                            /\ scrollListeners = 0

\* the step is initialize() creating the detector and the styler, or going on
\* from its await to create the monitor
InitializeCreates == initAwaiting' # initAwaiting

\* C38: initialize() creates the detector, the styler and the monitor only
\* while the current page is a valid chat page.
C38_InitializeOnlyOnChatPage ==
  [][InitializeCreates => isValidPage(location)]_vars

\* the step is startMonitoring, whose setupScrollMonitoring records the first
\* baseline
BaselineSetUp == starts' > starts

\* C39: once startMonitoring has recorded it, the baseline lastScrollPosition
\* changes only in the 100 ms timer that follows a triggered re-scan.  A scroll
\* debounce that finds the offset at most 50px from the baseline leaves the
\* baseline alone and sets no such timer; one that finds it more than 50px
\* away, by however many small scrolls, runs the re-scan and sets the timer.
C39_BaselineOnlyAfterRescan ==
  [][/\ lastScrollPosition' # lastScrollPosition => (BaselineAssigned \/ BaselineSetUp)
     /\ (ScrollDebounceFired /\ Abs(scrollTop - lastScrollPosition) <= 50)
          => /\ lastScrollPosition' = lastScrollPosition
             /\ resetTimers' = resetTimers
             /\ ~PassRan
     /\ (ScrollDebounceFired /\ Abs(scrollTop - lastScrollPosition) > 50)
          => /\ PassRan
             /\ resetTimers' = resetTimers + 1
             /\ lastScrollPosition' = lastScrollPosition]_vars

\* scrolls of at most 50px each have taken the offset 80px from the baseline
\* and the debounce has run the re-scan
C39_Witness ==
  /\ lastPass.op = "pass"
  /\ resetTimers > 0
  /\ ~scrollTimeout
  /\ lastScrollPosition = 0
  /\ scrollTop = 80

\* a debounce has fired exactly 50px from the baseline without a re-scan
C39_WitnessAtThreshold ==
  /\ lastPass.op = "none"
  /\ ~scrollTimeout
  /\ scrollListeners > 0
  /\ resetTimers = 0
  /\ lastScrollPosition = 0
  /\ scrollTop = 50
====
